---- MODULE Spec2Model ----
(***************************************************************************)
(* ValuesBlockInputFormat (src/Processors/Formats/Impl/                    *)
(* ValuesBlockInputFormat.cpp): the reader of the Values format.           *)
(*                                                                         *)
(* The input stream is revealed row by row: a row is a tuple of cells, one *)
(* per column, and a cell is described by what the collaborators of the    *)
(* reader (literal deserializer, SQL expression parser, expression         *)
(* template, constant-expression evaluator) do with its text.  What        *)
(* follows the last row (end of input, ';', whitespace, other bytes) is a  *)
(* concrete byte sequence.                                                 *)
(***************************************************************************)
EXTENDS Integers, Sequences, FiniteSets, TLC

VARIABLES
    format_settings,                    \* FormatSettings: values.interpret_expressions, values.deduce_templates_of_expressions, null_as_default
    need_only_count,                    \* IInputFormat::need_only_count
    parser_type_for_column,             \* ParserType per column
    templates,                          \* std::optional<ConstantExpressionTemplate> per column
    attempts_to_deduce_template,        \* per column
    attempts_to_deduce_template_cached, \* per column
    rows_parsed_using_template,         \* per column
    templates_cache,                    \* ConstantExpressionTemplate::Cache
    total_rows,                         \* rows read since the last resetParser()
    got_exception,                      \* IInputFormat::got_exception
    block_missing_values,               \* set of <<column, row>> bits
    columns,                            \* MutableColumns of the running read()
    rows_in_block,                      \* loop counter of read()
    buf,                                \* the input still to be read
    pc,                                 \* position of the caller / of read()
    result,                             \* what the last read() gave its caller
    expected,                           \* per column: each consumed cell of this read() evaluated on its own
    last_row,                           \* the cells of the row the last loop iteration read
    calls,                              \* per column: the calls the last loop iteration made, in order
    rows_seen,                          \* rows read during the reader's lifetime
    skip_args,                          \* skipToNextRow on its own: the bytes and arguments of the call
    schema_reader,                      \* ValuesSchemaReader: buf, first_row, end_of_data
    shared_cache,                       \* a template cache shared by several readers: its entries
    callers                             \* per reader sharing the cache: where it is in getFromCacheOrConstruct

vars == <<format_settings, need_only_count, parser_type_for_column, templates,
          attempts_to_deduce_template, attempts_to_deduce_template_cached,
          rows_parsed_using_template, templates_cache, total_rows, got_exception,
          block_missing_values, columns, rows_in_block, buf, pc, result,
          expected, last_row, calls, rows_seen,
          skip_args, schema_reader, shared_cache, callers>>

\* The members and locals of ValuesBlockInputFormat.
format_vars == <<format_settings, need_only_count, parser_type_for_column, templates,
                 attempts_to_deduce_template, attempts_to_deduce_template_cached,
                 rows_parsed_using_template, templates_cache, total_rows, got_exception,
                 block_missing_values, columns, rows_in_block, buf, pc, result,
                 expected, last_row, calls, rows_seen>>

\* What ValuesBlockInputFormat does not touch.
other_vars == <<skip_args, schema_reader, shared_cache, callers>>

(***************************************************************************)
(* Configuration of the reader under test.                                 *)
(***************************************************************************)
\* The header has two columns, both of a type that is neither Nullable nor
\* LowCardinality(Nullable).
num_columns == 2

\* params.max_block_size
max_block_size == 2

\* Rows the environment supplies during the lifetime of one reader.
MaxRows == 3

\* constexpr size_t max_attempts = 100
max_attempts == 100

ColumnIdx == 1..num_columns

(***************************************************************************)
(* Cells.  kind says what the text of the cell is:                         *)
(*   "lit"      a plain literal of the column's type, value lit            *)
(*   "default"  the keyword DEFAULT; lit = 0 upper case, 1 lower case      *)
(*   "f"        a function call f(lit): no prefix of it is a literal       *)
(*   "g"        lit + 1: it starts with a literal of the column's type     *)
(*   "bad"      text that is neither a literal nor an expression           *)
(*   "overflow" a literal out of the range of the column's type            *)
(*   "fatal"    a literal on which the deserializer fails with an error    *)
(*              that is no parse error                                     *)
(*   "null"     the literal NULL                                           *)
(*   "frac"     a literal of another type of which the deserializer reads  *)
(*              a prefix as a value of the column's type (1.5 for an       *)
(*              integer); converted to the column's type it is lit         *)
(*   "fnull"    a function call whose value is NULL                        *)
(*   "lit_tc", "f_tc"  as "lit", "f", followed by a comma and then ')'     *)
(*   "lit_x", "f_x", "default_x"  as "lit", "f", "default", followed by a   *)
(*              token that is neither part of the expression nor ',' nor   *)
(*              ')'                                                        *)
(* The other kinds are followed by the delimiter of their column: ',', or  *)
(* ')' in the last column.                                                 *)
(***************************************************************************)
Cell(k, v) == [kind |-> k, lit |-> v]

\* What a cell is, whatever follows it.
BaseKind(cell) ==
    CASE cell.kind \in {"lit_tc", "lit_x"} -> "lit"
      [] cell.kind = "default_x"           -> "default"
      [] cell.kind \in {"f_tc", "f_x"}     -> "f"
      [] OTHER                             -> cell.kind

\* The tokens that follow the text of the cell of column c.
AfterCell(c, cell) ==
    CASE cell.kind \in {"lit_tc", "f_tc"} -> <<",", ")">>
      [] cell.kind \in {"lit_x", "f_x", "default_x"} -> <<"]">>
      [] OTHER -> IF c # num_columns THEN <<",">> ELSE <<")">>

\* The cells the environment writes into the first column, and into the others.
FirstCells ==
    { Cell("lit", 1), Cell("default", 0), Cell("f", 1), Cell("f", 2),
      Cell("g", 1), Cell("bad", 0) }

OtherCells == { Cell("lit", 1), Cell("default", 1), Cell("f", 1) }

Rows == { r \in [ColumnIdx -> FirstCells \cup OtherCells] :
            \A c \in ColumnIdx : r[c] \in (IF c = 1 THEN FirstCells ELSE OtherCells) }

NoRow == [c \in ColumnIdx |-> Cell("none", 0)]

\* IColumn::insertDefault / IDataType::insertDefaultInto
DefaultValue == 0

ParserTypes == {"Streaming", "BatchTemplate", "SingleExpressionEvaluation"}

(***************************************************************************)
(* The collaborators of the reader, by what they do with a cell.           *)
(***************************************************************************)
\* checkStringByFirstCharacterAndAssertTheRestCaseInsensitive("DEFAULT", buf)
IsDefaultKeyword(cell) == BaseKind(cell) = "default"

\* ISerialization::deserializeTextQuoted from the column's mark:
\* "value" appends a value to the column, "parse_error" throws a parse error
\* before anything is appended, "out_of_bound" throws ARGUMENT_OUT_OF_BOUND
\* and "not_parse_error" an error for which isParseError is false.
DeserializeOutcome(cell) ==
    CASE BaseKind(cell) \in {"lit", "g", "frac"} -> "value"
      [] BaseKind(cell) = "overflow"     -> "out_of_bound"
      [] BaseKind(cell) = "fatal"        -> "not_parse_error"
      [] OTHER                           -> "parse_error"

\* SerializationNullable::deserializeNullAsDefaultOrNestedTextQuoted:
\* "null_default" appends the default for NULL and returns false.
DeserializeNullAsDefaultOutcome(cell) ==
    IF BaseKind(cell) = "null" THEN "null_default" ELSE DeserializeOutcome(cell)

\* The exception the deserializer throws for an outcome that is no parse error.
DeserializerException(outcome) ==
    IF outcome = "out_of_bound" THEN "ARGUMENT_OUT_OF_BOUND" ELSE "MEMORY_LIMIT_EXCEEDED"

\* The value deserializeTextQuoted appends.
DeserializedValue(cell) == cell.lit

\* checkDelimiterAfterValue(column_idx) after what the DEFAULT keyword or
\* the deserializer consumed, which is the whole cell unless the cell goes
\* on after its literal: ',' for a column that is not the last, and for the
\* last column ')' or ',' and then ')'.
DelimiterFollowsValue(c, cell) ==
    /\ BaseKind(cell) \in {"lit", "default", "null"}
    /\ LET after == AfterCell(c, cell)
           \* Optional trailing comma.
           rest == IF Head(after) = "," THEN Tail(after) ELSE after
       IN  IF c # num_columns
           THEN Head(after) = ","
           ELSE rest # <<>> /\ Head(rest) = ")"

\* parser.parse (ParserExpression) on the cell's tokens: whether it parses,
\* whether the AST is an ASTLiteral, and the expression with its literals
\* taken out.  DEFAULT parses as an identifier.
ParseExpr(cell) ==
    CASE BaseKind(cell) \in {"lit", "overflow", "fatal", "frac"} ->
                [ok |-> TRUE, literal |-> TRUE, shape |-> "lit"]
      [] BaseKind(cell) = "null" -> [ok |-> TRUE, literal |-> TRUE, shape |-> "null"]
      [] BaseKind(cell) = "default" -> [ok |-> TRUE, literal |-> FALSE, shape |-> "ident"]
      [] BaseKind(cell) \in {"f", "g", "fnull"} ->
                [ok |-> TRUE, literal |-> FALSE, shape |-> BaseKind(cell)]
      [] OTHER -> [ok |-> FALSE, literal |-> FALSE, shape |-> "none"]

\* Whether the token after the parsed expression is the column's delimiter:
\* TokenType::Comma for a column that is not the last,
\* TokenType::ClosingRoundBracket for the last.
DelimiterTokenFollows(c, cell) ==
    IF c # num_columns
    THEN Head(AfterCell(c, cell)) = ","
    ELSE Head(AfterCell(c, cell)) = ")"

\* evaluateConstantExpression + convertFieldToType of an expression of the
\* given shape whose literal is lit.
EvalShape(shape, lit) ==
    CASE shape = "f" -> 10 + lit
      [] shape = "g" -> 20 + lit
      [] OTHER       -> lit

\* Whether evaluateConstantExpression throws (an identifier names no column).
EvalThrows(cell) == BaseKind(cell) = "default"

\* Whether the value of the expression, converted to the column's type, is NULL.
EvalIsNull(cell) == BaseKind(cell) \in {"null", "fnull"}

\* The cell evaluated on its own: what one INSERT of this single cell gives.
IndependentValue(cell) ==
    IF cell.kind = "default" THEN DefaultValue ELSE EvalShape(cell.kind, cell.lit)

(***************************************************************************)
(* ConstantExpressionTemplate and its cache.                               *)
(***************************************************************************)
\* An empty std::optional<ConstantExpressionTemplate>
NoTemplate == [shape |-> "none", rows |-> <<>>]

\* ConstantExpressionTemplate constructed from a structure: no rows yet
NewTemplate(shape) == [shape |-> shape, rows |-> <<>>]

\* Whether constructing the structure throws: the expression refers to an
\* identifier, so its actions cannot be built.
ConstructThrows(ast) == ast.shape = "ident"

\* The cache key of a column's expression: result type and delimiter are
\* the column's, the flag is a setting, the tokens are the shape.
CacheKey(c, ast) == <<c, ast.shape>>

\* ConstantExpressionTemplate::parseExpression: does the cell's expression
\* have the template's structure, the delimiter of the column included
TemplateMatches(c, t, cell) ==
    /\ t.shape # "none"
    /\ ParseExpr(cell).shape = t.shape
    /\ DelimiterTokenFollows(c, cell)

\* ConstantExpressionTemplate::evaluateAll: one value per accumulated row, in
\* the order the rows were accumulated
RECURSIVE EvaluateAll(_, _)
EvaluateAll(shape, rows) ==
    IF rows = <<>> THEN <<>>
    ELSE <<EvalShape(shape, Head(rows))>> \o EvaluateAll(shape, Tail(rows))

(***************************************************************************)
(* The members of the reader as one record, handed from call to call       *)
(* within one iteration of the loop of read().  exc is the exception in    *)
(* flight ("none": none), ret the value the last call returned, done       *)
(* whether a part of parseExpression has returned from it.                 *)
(***************************************************************************)
Reader ==
    [ parser_type_for_column |-> parser_type_for_column,
      templates |-> templates,
      attempts_to_deduce_template |-> attempts_to_deduce_template,
      attempts_to_deduce_template_cached |-> attempts_to_deduce_template_cached,
      rows_parsed_using_template |-> rows_parsed_using_template,
      templates_cache |-> templates_cache,
      columns |-> columns,
      block_missing_values |-> block_missing_values,
      calls |-> [c \in ColumnIdx |-> <<>>],
      exc |-> "none",
      ret |-> TRUE,
      done |-> FALSE ]

Call(s, c, what) == [s EXCEPT !.calls[c] = Append(@, what)]

Throw(s, code) == [s EXCEPT !.exc = code, !.done = TRUE]

Return(s, value) == [s EXCEPT !.ret = value, !.done = TRUE]

\* IColumn::popBack(1)
PopBack(col) == SubSeq(col, 1, Len(col) - 1)

(***************************************************************************)
(* ValuesBlockInputFormat::shouldDeduceNewTemplate.  The weighted score    *)
(* 1.5 * cold + 0.5 * cached is kept doubled, as 3 * cold + cached, so     *)
(* that the comparisons of the code are comparisons of integers:           *)
(*   score < max_attempts   iff  3*cold + cached < 2*max_attempts          *)
(*   rows / score > 1       iff  2*rows > 3*cold + cached   (score > 0)    *)
(***************************************************************************)
\* shouldDeduceNewTemplate that tries again at a ratio of exactly 1.
shouldDeduceNewTemplate_ge(s, c) ==
    LET weighted2 == 3 * s.attempts_to_deduce_template[c]
                       + s.attempts_to_deduce_template_cached[c]
    IN  IF ~format_settings.deduce_templates_of_expressions
        THEN [s EXCEPT !.ret = FALSE]
        ELSE IF weighted2 < 2 * max_attempts
        THEN [s EXCEPT !.ret = TRUE]
        ELSE IF 2 * s.rows_parsed_using_template[c] >= weighted2
        THEN [s EXCEPT !.attempts_to_deduce_template[c] = 0,
                       !.attempts_to_deduce_template_cached[c] = 0,
                       !.rows_parsed_using_template[c] = 0,
                       !.ret = TRUE]
        ELSE [s EXCEPT !.ret = FALSE]

AttemptsWeighted2(cold, cached) == 3 * cold + cached

\* shouldDeduceNewTemplate that does not look at the setting.
shouldDeduceNewTemplate_always(s, c) ==
    LET weighted2 == AttemptsWeighted2(s.attempts_to_deduce_template[c],
                                        s.attempts_to_deduce_template_cached[c])
    IN  IF weighted2 < 2 * max_attempts
        THEN [s EXCEPT !.ret = TRUE]
        ELSE IF 2 * s.rows_parsed_using_template[c] > weighted2
        THEN [s EXCEPT !.attempts_to_deduce_template[c] = 0,
                       !.attempts_to_deduce_template_cached[c] = 0,
                       !.rows_parsed_using_template[c] = 0,
                       !.ret = TRUE]
        ELSE [s EXCEPT !.ret = FALSE]

shouldDeduceNewTemplate(s, c) ==
    LET weighted2 == AttemptsWeighted2(s.attempts_to_deduce_template[c],
                                        s.attempts_to_deduce_template_cached[c])
    IN  IF ~format_settings.deduce_templates_of_expressions
        THEN [s EXCEPT !.ret = FALSE]
        ELSE IF weighted2 < 2 * max_attempts
        THEN [s EXCEPT !.ret = TRUE]
        ELSE IF 2 * s.rows_parsed_using_template[c] > weighted2
        THEN [s EXCEPT !.attempts_to_deduce_template[c] = 0,
                       !.attempts_to_deduce_template_cached[c] = 0,
                       !.rows_parsed_using_template[c] = 0,
                       !.ret = TRUE]
        ELSE [s EXCEPT !.ret = FALSE]

(***************************************************************************)
(* Evaluate the rows a column's template has accumulated and append them   *)
(* to the column (the same statements in tryParseExpressionUsingTemplate   *)
(* and in read()); evaluateAll leaves the template without rows.           *)
(***************************************************************************)
evaluateAccumulated(s, c) ==
    LET t == s.templates[c]
    IN  [Call(s, c, "evaluateAll") EXCEPT
            !.columns[c] = @ \o EvaluateAll(t.shape, t.rows),
            !.templates[c].rows = <<>>]

\* The last part of parseExpression without the check of interpret_expressions.
evaluateSingleExpression_unguarded(s, c, cell) ==
    LET s1 == Call(s, c, "evaluateConstantExpression")
    IN  IF EvalThrows(cell) THEN Throw(s1, "UNKNOWN_IDENTIFIER")
        ELSE Return([s1 EXCEPT !.columns[c] =
                         Append(@, EvalShape(ParseExpr(cell).shape, cell.lit))],
                    TRUE)

\* The last part of parseExpression that inserts the default for NULL and
\* returns true.
evaluateSingleExpression_nullread(s, c, cell) ==
    IF ~format_settings.interpret_expressions
    THEN Throw(s, "SUPPORT_IS_DISABLED")
    ELSE LET s1 == Call(s, c, "evaluateConstantExpression")
         IN  IF EvalThrows(cell) THEN Throw(s1, "UNKNOWN_IDENTIFIER")
             ELSE IF EvalIsNull(cell)
             THEN IF format_settings.null_as_default
                  THEN Return([Call(s1, c, "insertDefaultInto") EXCEPT
                                  !.columns[c] = Append(@, DefaultValue)],
                              TRUE)
                  ELSE Throw(Call(s1, c, "rollbackToCheckpoint"), "TYPE_MISMATCH")
             ELSE Return([s1 EXCEPT !.columns[c] =
                              Append(@, EvalShape(ParseExpr(cell).shape, cell.lit))],
                         TRUE)

(***************************************************************************)
(* parseExpression, last part: evaluate the single expression.             *)
(***************************************************************************)
evaluateSingleExpression(s, c, cell) ==
    IF ~format_settings.interpret_expressions
    THEN Throw(s, "SUPPORT_IS_DISABLED")
    ELSE LET s1 == Call(s, c, "evaluateConstantExpression")
         IN  IF EvalThrows(cell)
             THEN Throw(s1, "UNKNOWN_IDENTIFIER")
             ELSE IF EvalIsNull(cell)
             THEN \* value.isNull() and the type is neither Nullable nor
                  \* LowCardinality(Nullable)
                  IF format_settings.null_as_default
                  THEN Return([Call(s1, c, "insertDefaultInto") EXCEPT
                                  !.columns[c] = Append(@, DefaultValue)],
                              FALSE)
                  ELSE Throw(Call(s1, c, "rollbackToCheckpoint"), "TYPE_MISMATCH")
             ELSE Return([s1 EXCEPT !.columns[c] =
                              Append(@, EvalShape(ParseExpr(cell).shape, cell.lit))],
                         TRUE)

(***************************************************************************)
(* parseExpression, middle part: deduce a template from the expression.    *)
(* done in the result: the function returned or threw.                     *)
(***************************************************************************)
\* A template that takes the row without counting it.
bindRow_nocount(s, c, cell) ==
    [s EXCEPT !.templates[c].rows = Append(@, cell.lit)]

\* ConstantExpressionTemplate::parseExpression that matched, and
\* ++rows_parsed_using_template[column_idx]
bindRow(s, c, cell) ==
    [s EXCEPT !.templates[c].rows = Append(@, cell.lit),
              !.rows_parsed_using_template[c] = @ + 1]

deduceTemplate(s, c, cell, ast) ==
    LET sd == shouldDeduceNewTemplate(s, c)
    IN  IF ~sd.ret THEN sd
        ELSE IF sd.templates[c] # NoTemplate THEN Throw(sd, "LOGICAL_ERROR")
        ELSE LET s1 == Call(sd, c, "getFromCacheOrConstruct")
                 found_in_cache == CacheKey(c, ast) \in s1.templates_cache
                 s2 == [s1 EXCEPT
                          !.templates_cache = @ \cup {CacheKey(c, ast)},
                          !.templates[c] = NewTemplate(ast.shape),
                          !.attempts_to_deduce_template_cached[c] =
                              IF found_in_cache THEN @ + 1 ELSE @,
                          !.attempts_to_deduce_template[c] =
                              IF found_in_cache THEN @ ELSE @ + 1]
                 s3 == Call(Call(s2, c, "rollbackToCheckpoint"), c,
                            "template.parseExpression")
                 exception == IF ConstructThrows(ast) THEN "UNKNOWN_IDENTIFIER" ELSE "none"
                 after == IF exception # "none" THEN s1 ELSE s3
             IN  IF exception = "none" /\ TemplateMatches(c, s3.templates[c], cell)
                 THEN Return([bindRow(s3, c, cell) EXCEPT
                                 !.parser_type_for_column[c] = "BatchTemplate"], TRUE)
                 ELSE IF ~format_settings.interpret_expressions
                 THEN IF exception # "none" THEN Throw(after, exception)
                      ELSE Throw(Call(after, c, "rollbackToCheckpoint"), "SYNTAX_ERROR")
                 ELSE [after EXCEPT !.templates[c] = NoTemplate]

\* The probe that leaves the value of a failed attempt in the column.
probeStreaming_nopop(s, c, cell) ==
    LET s1 == Call(s, c, "deserializeTextQuoted")
        outcome == DeserializeOutcome(cell)
        appended == outcome = "value"
        s2 == IF appended
              THEN [s1 EXCEPT !.columns[c] = Append(@, DeserializedValue(cell))]
              ELSE s1
        ok == appended /\ DelimiterFollowsValue(c, cell)
    IN  IF outcome \in {"out_of_bound", "not_parse_error"}
        THEN Throw(s1, DeserializerException(outcome))
        ELSE IF ok
        THEN Return([s2 EXCEPT !.parser_type_for_column[c] = "Streaming"], TRUE)
        ELSE s2

(***************************************************************************)
(* parseExpression, the probe: the column is not Streaming and the         *)
(* expression is a literal, so try the streaming parser on it again.       *)
(***************************************************************************)
probeStreaming(s, c, cell) ==
    LET s1 == Call(s, c, "deserializeTextQuoted")
        outcome == DeserializeOutcome(cell)
        appended == outcome = "value"
        s2 == IF appended
              THEN [s1 EXCEPT !.columns[c] = Append(@, DeserializedValue(cell))]
              ELSE s1
        ok == appended /\ DelimiterFollowsValue(c, cell)
    IN  IF outcome \in {"out_of_bound", "not_parse_error"}
        THEN Throw(s1, DeserializerException(outcome))
        ELSE IF ok
        THEN Return([s2 EXCEPT !.parser_type_for_column[c] = "Streaming"], TRUE)
        ELSE IF appended
        THEN [s2 EXCEPT !.columns[c] = PopBack(@)]
        ELSE s2

parseExpression(s, c, cell) ==
    LET s1 == Call(Call(s, c, "parseExpression"), c, "parser.parse")
        ast == ParseExpr(cell)
        parsed == ast.ok /\ DelimiterTokenFollows(c, cell)
    IN  IF ~parsed THEN Throw(s1, "SYNTAX_ERROR")
        ELSE LET s2 == IF s1.parser_type_for_column[c] # "Streaming" /\ ast.literal
                       THEN probeStreaming(s1, c, cell)
                       ELSE s1
             IN  IF s2.done THEN s2
                 ELSE LET s3 == deduceTemplate(
                                   [s2 EXCEPT !.parser_type_for_column[c] =
                                                 "SingleExpressionEvaluation"],
                                   c, cell, ast)
                      IN  IF s3.done THEN s3
                          ELSE evaluateSingleExpression(s3, c, cell)

\* tryParseExpressionUsingTemplate that drops the template without evaluating
\* the rows it has accumulated.
tryParseExpressionUsingTemplate_noflush(s, c, cell) ==
    LET s1 == Call(Call(s, c, "tryParseExpressionUsingTemplate"), c,
                   "template.parseExpression")
    IN  IF TemplateMatches(c, s1.templates[c], cell)
        THEN Return(bindRow(s1, c, cell), TRUE)
        ELSE LET s3 == Call([s1 EXCEPT !.templates[c] = NoTemplate], c, "templates.reset")
             IN  parseExpression(s3, c, cell)

(***************************************************************************)
(* ValuesBlockInputFormat::tryParseExpressionUsingTemplate                 *)
(***************************************************************************)
tryParseExpressionUsingTemplate(s, c, cell) ==
    LET s1 == Call(Call(s, c, "tryParseExpressionUsingTemplate"), c,
                   "template.parseExpression")
    IN  IF TemplateMatches(c, s1.templates[c], cell)
        THEN Return(bindRow(s1, c, cell), TRUE)
        ELSE LET s2 == evaluateAccumulated(s1, c)
                 s3 == Call(Call([s2 EXCEPT !.templates[c] = NoTemplate], c,
                                 "templates.reset"), c, "rollbackToCheckpoint")
             IN  parseExpression(s3, c, cell)

\* tryReadValue that leaves the value of the failed attempt in the column.
tryReadValue_nopop(s, c, cell) ==
    LET s0 == Call(s, c, "tryReadValue")
        default_value == IsDefaultKeyword(cell)
        outcome == IF default_value THEN "default"
                   ELSE IF format_settings.null_as_default
                   THEN DeserializeNullAsDefaultOutcome(cell)
                   ELSE DeserializeOutcome(cell)
        s1 == IF default_value THEN Call(s0, c, "insertDefault")
              ELSE IF format_settings.null_as_default
              THEN Call(s0, c, "deserializeNullAsDefaultOrNestedTextQuoted")
              ELSE Call(s0, c, "deserializeTextQuoted")
        appended == outcome \in {"default", "null_default", "value"}
        s2 == IF outcome \in {"default", "null_default"}
              THEN [s1 EXCEPT !.columns[c] = Append(@, DefaultValue)]
              ELSE IF appended
              THEN [s1 EXCEPT !.columns[c] = Append(@, DeserializedValue(cell))]
              ELSE s1
        read == outcome = "value"
    IN  IF outcome \in {"out_of_bound", "not_parse_error"}
        THEN \* !isParseError(e.code()) || decimal_overflow
             Throw(s1, DeserializerException(outcome))
        ELSE IF appended /\ DelimiterFollowsValue(c, cell)
        THEN Return(s2, read)
        ELSE parseExpression(Call(s2, c, "rollbackToCheckpoint"), c, cell)

\* tryReadValue that takes every exception of the deserializer for a parse error.
tryReadValue_catchall(s, c, cell) ==
    LET s0 == Call(s, c, "tryReadValue")
        default_value == IsDefaultKeyword(cell)
        outcome == IF default_value THEN "default"
                   ELSE IF format_settings.null_as_default
                   THEN DeserializeNullAsDefaultOutcome(cell)
                   ELSE DeserializeOutcome(cell)
        s1 == IF default_value THEN Call(s0, c, "insertDefault")
              ELSE IF format_settings.null_as_default
              THEN Call(s0, c, "deserializeNullAsDefaultOrNestedTextQuoted")
              ELSE Call(s0, c, "deserializeTextQuoted")
        appended == outcome \in {"default", "null_default", "value"}
        s2 == IF outcome \in {"default", "null_default"}
              THEN [s1 EXCEPT !.columns[c] = Append(@, DefaultValue)]
              ELSE IF appended
              THEN [s1 EXCEPT !.columns[c] = Append(@, DeserializedValue(cell))]
              ELSE s1
        read == outcome = "value"
    IN  IF appended /\ DelimiterFollowsValue(c, cell)
        THEN Return(s2, read)
        ELSE \* a parse error was caught: rollback_on_exception is `appended`
             parseExpression(Call(IF appended
                                  THEN [s2 EXCEPT !.columns[c] = PopBack(@)]
                                  ELSE s2,
                                  c, "rollbackToCheckpoint"),
                             c, cell)

(***************************************************************************)
(* ValuesBlockInputFormat::tryReadValue                                    *)
\* tryReadValue that pops a value whether or not the attempt appended one.
tryReadValue_popalways(s, c, cell) ==
    LET s0 == Call(s, c, "tryReadValue")
        default_value == IsDefaultKeyword(cell)
        outcome == IF default_value THEN "default"
                   ELSE IF format_settings.null_as_default
                   THEN DeserializeNullAsDefaultOutcome(cell)
                   ELSE DeserializeOutcome(cell)
        s1 == IF default_value THEN Call(s0, c, "insertDefault")
              ELSE IF format_settings.null_as_default
              THEN Call(s0, c, "deserializeNullAsDefaultOrNestedTextQuoted")
              ELSE Call(s0, c, "deserializeTextQuoted")
        appended == outcome \in {"default", "null_default", "value"}
        s2 == IF outcome \in {"default", "null_default"}
              THEN [s1 EXCEPT !.columns[c] = Append(@, DefaultValue)]
              ELSE IF appended
              THEN [s1 EXCEPT !.columns[c] = Append(@, DeserializedValue(cell))]
              ELSE s1
        read == outcome = "value"
    IN  IF outcome \in {"out_of_bound", "not_parse_error"}
        THEN \* !isParseError(e.code()) || decimal_overflow
             Throw(s1, DeserializerException(outcome))
        ELSE IF appended /\ DelimiterFollowsValue(c, cell)
        THEN Return(s2, read)
        ELSE \* a parse error was caught: rollback_on_exception is `appended`
             parseExpression(Call([s2 EXCEPT !.columns[c] = PopBack(@)],
                                  c, "rollbackToCheckpoint"),
                             c, cell)

(***************************************************************************)
tryReadValue(s, c, cell) ==
    LET s0 == Call(s, c, "tryReadValue")
        default_value == IsDefaultKeyword(cell)
        outcome == IF default_value THEN "default"
                   ELSE IF format_settings.null_as_default
                   THEN DeserializeNullAsDefaultOutcome(cell)
                   ELSE DeserializeOutcome(cell)
        s1 == IF default_value THEN Call(s0, c, "insertDefault")
              ELSE IF format_settings.null_as_default
              THEN Call(s0, c, "deserializeNullAsDefaultOrNestedTextQuoted")
              ELSE Call(s0, c, "deserializeTextQuoted")
        appended == outcome \in {"default", "null_default", "value"}
        s2 == IF outcome \in {"default", "null_default"}
              THEN [s1 EXCEPT !.columns[c] = Append(@, DefaultValue)]
              ELSE IF appended
              THEN [s1 EXCEPT !.columns[c] = Append(@, DeserializedValue(cell))]
              ELSE s1
        read == outcome = "value"
    IN  IF outcome \in {"out_of_bound", "not_parse_error"}
        THEN \* !isParseError(e.code()) || decimal_overflow
             Throw(s1, DeserializerException(outcome))
        ELSE IF appended /\ DelimiterFollowsValue(c, cell)
        THEN Return(s2, read)
        ELSE \* a parse error was caught: rollback_on_exception is `appended`
             parseExpression(Call(IF appended
                                  THEN [s2 EXCEPT !.columns[c] = PopBack(@)]
                                  ELSE s2,
                                  c, "rollbackToCheckpoint"),
                             c, cell)

\* readRow that hands a Streaming column to the SQL parser.
readColumn_sqlfirst(s, c, cell, row_num) ==
    LET s0 == [s EXCEPT !.done = FALSE]
        s1 == CASE s0.parser_type_for_column[c] = "BatchTemplate" ->
                       tryParseExpressionUsingTemplate(s0, c, cell)
                [] OTHER -> parseExpression(s0, c, cell)
    IN  IF s1.exc = "none" /\ ~s1.ret
        THEN [s1 EXCEPT !.block_missing_values = @ \cup {<<c, row_num>>}]
        ELSE s1

\* readRow that sets the bit of the session-wide row number.
readColumn_totalrows(s, c, cell, row_num) ==
    LET s0 == [s EXCEPT !.done = FALSE]
        s1 == CASE s0.parser_type_for_column[c] = "Streaming" ->
                       tryReadValue(s0, c, cell)
                [] s0.parser_type_for_column[c] = "BatchTemplate" ->
                       tryParseExpressionUsingTemplate(s0, c, cell)
                [] OTHER -> parseExpression(s0, c, cell)
    IN  IF s1.exc = "none" /\ ~s1.ret
        THEN [s1 EXCEPT !.block_missing_values = @ \cup {<<c, total_rows>>}]
        ELSE s1

(***************************************************************************)
(* ValuesBlockInputFormat::readRow: the loop over the columns.  The next   *)
(* column is not attempted once an exception is in flight.                 *)
(***************************************************************************)
readColumn(s, c, cell, row_num) ==
    LET s0 == [s EXCEPT !.done = FALSE]
        s1 == CASE s0.parser_type_for_column[c] = "Streaming" ->
                       tryReadValue(s0, c, cell)
                [] s0.parser_type_for_column[c] = "BatchTemplate" ->
                       tryParseExpressionUsingTemplate(s0, c, cell)
                [] OTHER -> parseExpression(s0, c, cell)
    IN  IF s1.exc = "none" /\ ~s1.ret
        THEN [s1 EXCEPT !.block_missing_values = @ \cup {<<c, row_num>>}]
        ELSE s1

RECURSIVE readColumns(_, _, _, _)
readColumns(s, row, row_num, c) ==
    IF c > num_columns \/ s.exc # "none" THEN s
    ELSE readColumns(readColumn(s, c, row[c], row_num), row, row_num, c + 1)

readRow(s, row, row_num) == readColumns(s, row, row_num, 1)

(***************************************************************************)
(* The input.  While buf.more holds the environment still has rows to      *)
(* supply; after that buf.rest are the bytes left: ";" the statement       *)
(* terminator, " " whitespace, "x" any other byte.                         *)
(***************************************************************************)
Tails == { <<>>, <<" ">>, <<";">>, <<";", " ">>, <<";", "x">>, <<";", " ", "x">> }

RECURSIVE skipWhitespaceIfAny(_)
skipWhitespaceIfAny(bytes) ==
    IF bytes # <<>> /\ Head(bytes) = " " THEN skipWhitespaceIfAny(Tail(bytes))
    ELSE bytes

\* buf->eof() || *buf->position() == ';'
AtEndOrSemicolon(b) == ~b.more /\ (b.rest = <<>> \/ Head(b.rest) = ";")

\* PeekableReadBuffer::hasUnreadData: bytes of the input are left unread.
hasUnreadData(b) == b.rest # <<>>

\* ReadBuffer::eof
eof(b) == ~b.more /\ b.rest = <<>>

\* readSuffix that does not look at what follows the semicolon.
readSuffix_unchecked(b) ==
    IF ~eof(b) /\ ~b.more /\ Head(b.rest) = ";"
    THEN [buf |-> [b EXCEPT !.rest = skipWhitespaceIfAny(Tail(b.rest))], exc |-> "none"]
    ELSE [buf |-> b,
          exc |-> IF hasUnreadData(b) \/ ~eof(b) THEN "LOGICAL_ERROR" ELSE "none"]

(***************************************************************************)
(* ValuesBlockInputFormat::readSuffix: the buffer it leaves and the        *)
(* exception it throws ("none": it returns).  It is called with the whole  *)
(* input revealed, or at the start of a row when the block is full.        *)
(***************************************************************************)
readSuffix(b) ==
    IF ~eof(b) /\ ~b.more /\ Head(b.rest) = ";"
    THEN LET after == [b EXCEPT !.rest = skipWhitespaceIfAny(Tail(b.rest))]
         IN  [buf |-> after,
              exc |-> IF hasUnreadData(after) THEN "CANNOT_READ_ALL_DATA" ELSE "none"]
    ELSE [buf |-> b,
          exc |-> IF hasUnreadData(b) \/ ~eof(b) THEN "LOGICAL_ERROR" ELSE "none"]

(***************************************************************************)
(* ValuesBlockInputFormat::skipToNextRow on a sequence of bytes; position  *)
(* pos = Len(bytes) + 1 is the end of the input.  It gives the position    *)
(* it stops at and the value it returns.                                   *)
(***************************************************************************)
SpecialSymbols == {"\\", "'", ")", "("}

RECURSIVE find_first_symbols(_, _)
find_first_symbols(bytes, pos) ==
    IF pos > Len(bytes) \/ bytes[pos] \in SpecialSymbols THEN pos
    ELSE find_first_symbols(bytes, pos + 1)

\* The loop of skipToNextRow that stops as soon as the balance is zero or
\* min_chunk_bytes bytes are consumed.
RECURSIVE skipLoop_eager(_, _, _, _, _, _)
skipLoop_eager(bytes, begin, min_chunk_bytes, pos, balance, quoted) ==
    IF pos > Len(bytes) \/ ~(balance # 0 /\ pos - begin < min_chunk_bytes)
    THEN pos
    ELSE LET p == find_first_symbols(bytes, pos)
         IN  IF p > Len(bytes) THEN p
             ELSE IF bytes[p] = "\\"
             THEN skipLoop_eager(bytes, begin, min_chunk_bytes,
                                 IF p + 1 > Len(bytes) THEN p + 1 ELSE p + 2, balance, quoted)
             ELSE IF bytes[p] = "'"
             THEN skipLoop_eager(bytes, begin, min_chunk_bytes, p + 1, balance, ~quoted)
             ELSE IF bytes[p] = ")"
             THEN skipLoop_eager(bytes, begin, min_chunk_bytes, p + 1,
                                 IF quoted THEN balance ELSE balance - 1, quoted)
             ELSE skipLoop_eager(bytes, begin, min_chunk_bytes, p + 1,
                                 IF quoted THEN balance ELSE balance + 1, quoted)

\* The loop of skipToNextRow with a backslash that consumes only itself.
RECURSIVE skipLoop_noescape(_, _, _, _, _, _)
skipLoop_noescape(bytes, begin, min_chunk_bytes, pos, balance, quoted) ==
    IF pos > Len(bytes) \/ ~(balance # 0 \/ pos - begin < min_chunk_bytes)
    THEN pos
    ELSE LET p == find_first_symbols(bytes, pos)
         IN  IF p > Len(bytes) THEN p
             ELSE IF bytes[p] = "\\"
             THEN skipLoop_noescape(bytes, begin, min_chunk_bytes, p + 1, balance, quoted)
             ELSE IF bytes[p] = "'"
             THEN skipLoop_noescape(bytes, begin, min_chunk_bytes, p + 1, balance, ~quoted)
             ELSE IF bytes[p] = ")"
             THEN skipLoop_noescape(bytes, begin, min_chunk_bytes, p + 1,
                                    IF quoted THEN balance ELSE balance - 1, quoted)
             ELSE skipLoop_noescape(bytes, begin, min_chunk_bytes, p + 1,
                                    IF quoted THEN balance ELSE balance + 1, quoted)

\* while (!buf->eof() && (balance || buf->count() - chunk_begin_buf_count < min_chunk_bytes))
RECURSIVE skipLoop(_, _, _, _, _, _)
skipLoop(bytes, begin, min_chunk_bytes, pos, balance, quoted) ==
    IF pos > Len(bytes) \/ ~(balance # 0 \/ pos - begin < min_chunk_bytes)
    THEN pos
    ELSE LET p == find_first_symbols(bytes, pos)
         IN  IF p > Len(bytes) THEN p
             ELSE IF bytes[p] = "\\"
             THEN skipLoop(bytes, begin, min_chunk_bytes,
                           IF p + 1 > Len(bytes) THEN p + 1 ELSE p + 2, balance, quoted)
             ELSE IF bytes[p] = "'"
             THEN skipLoop(bytes, begin, min_chunk_bytes, p + 1, balance, ~quoted)
             ELSE IF bytes[p] = ")"
             THEN skipLoop(bytes, begin, min_chunk_bytes, p + 1,
                           IF quoted THEN balance ELSE balance - 1, quoted)
             ELSE skipLoop(bytes, begin, min_chunk_bytes, p + 1,
                           IF quoted THEN balance ELSE balance + 1, quoted)

RECURSIVE firstNonWhitespace(_, _)
firstNonWhitespace(bytes, pos) ==
    IF pos <= Len(bytes) /\ bytes[pos] = " " THEN firstNonWhitespace(bytes, pos + 1)
    ELSE pos

skipToNextRow(bytes, min_chunk_bytes, balance) ==
    LET begin == firstNonWhitespace(bytes, 1)
    IN  IF begin > Len(bytes) \/ bytes[begin] = ";"
        THEN [ret |-> FALSE, pos |-> begin]
        ELSE LET stop == skipLoop(bytes, begin, min_chunk_bytes, begin, balance, FALSE)
             IN  [ret |-> TRUE,
                  pos |-> IF stop <= Len(bytes) /\ bytes[stop] = "," THEN stop + 1
                          ELSE stop]

\* The bytes of a cell and of a row of the input.
CellBytes(cell) ==
    CASE cell.kind = "f" -> <<"x", "(", "x", ")">>
      [] cell.kind = "g" -> <<"x", "x", "x">>
      [] OTHER           -> <<"x">>

RECURSIVE CellsBytes(_, _)
CellsBytes(row, c) ==
    IF c > num_columns THEN <<>>
    ELSE CellBytes(row[c]) \o (IF c < num_columns THEN <<",">> ELSE <<>>)
         \o CellsBytes(row, c + 1)

RowBytes(row, comma) ==
    <<"(">> \o CellsBytes(row, 1) \o <<")">> \o (IF comma THEN <<",">> ELSE <<>>)

(***************************************************************************)
(* The state after construction.                                           *)
(***************************************************************************)
\* No call of skipToNextRow on its own, no schema reader, no shared cache.
NoSkipArgs == [bytes |-> <<>>, min_chunk_bytes |-> 0, balance |-> 0]

NoSchemaReader == [buf |-> <<>>, first_row |-> TRUE, end_of_data |-> FALSE]

OthersIdle ==
    /\ skip_args = NoSkipArgs
    /\ schema_reader = NoSchemaReader
    /\ shared_cache = {}
    /\ callers = <<>>

Settings ==
    [ interpret_expressions : BOOLEAN,
      deduce_templates_of_expressions : BOOLEAN,
      null_as_default : {FALSE} ]

NoResult == [kind |-> "none", rows |-> 0, code |-> "none"]

Running == [kind |-> "running", rows |-> 0, code |-> "none"]

Error(code) == [kind |-> "error", rows |-> 0, code |-> code]

FreshBuffer == [more |-> TRUE, rest |-> <<>>]

Init ==
    /\ OthersIdle
    /\ format_settings \in Settings
    /\ need_only_count \in BOOLEAN
    /\ parser_type_for_column = [c \in ColumnIdx |-> "Streaming"]
    /\ templates = [c \in ColumnIdx |-> NoTemplate]
    /\ attempts_to_deduce_template = [c \in ColumnIdx |-> 0]
    /\ attempts_to_deduce_template_cached = [c \in ColumnIdx |-> 0]
    /\ rows_parsed_using_template = [c \in ColumnIdx |-> 0]
    /\ templates_cache = {}
    /\ total_rows = 0
    /\ got_exception = FALSE
    /\ block_missing_values = {}
    /\ columns = [c \in ColumnIdx |-> <<>>]
    /\ rows_in_block = 0
    /\ buf = FreshBuffer
    /\ pc = "idle"
    /\ result = NoResult
    /\ expected = [c \in ColumnIdx |-> <<>>]
    /\ last_row = [cells |-> NoRow, comma |-> FALSE]
    /\ calls = [c \in ColumnIdx |-> <<>>]
    /\ rows_seen = 0

\* The members of the reader after the calls of one loop iteration.
Commit(s) ==
    /\ parser_type_for_column' = s.parser_type_for_column
    /\ templates' = s.templates
    /\ attempts_to_deduce_template' = s.attempts_to_deduce_template
    /\ attempts_to_deduce_template_cached' = s.attempts_to_deduce_template_cached
    /\ rows_parsed_using_template' = s.rows_parsed_using_template
    /\ templates_cache' = s.templates_cache
    /\ columns' = s.columns
    /\ block_missing_values' = s.block_missing_values
    /\ calls' = s.calls

\* IInputFormat::generate records that read() threw: got_exception = true.
RecordException(thrown) == got_exception' = thrown

\* The caller of the format reads on after an exception only once it has
\* called resetParser().
CallerMayRead == ~got_exception

(***************************************************************************)
(* read(), up to its loop: fresh columns, the mask cleared.  The caller    *)
(* calls read() again after an exception only once it has called           *)
(* resetParser().                                                          *)
(***************************************************************************)
ReadBegin ==
    /\ UNCHANGED other_vars
    /\ pc = "idle"
    /\ CallerMayRead
    /\ pc' = IF max_block_size > 0 THEN "loop" ELSE "flush"
    /\ columns' = [c \in ColumnIdx |-> <<>>]
    /\ block_missing_values' = {}
    /\ rows_in_block' = 0
    /\ result' = Running
    /\ expected' = [c \in ColumnIdx |-> <<>>]
    /\ last_row' = [cells |-> NoRow, comma |-> FALSE]
    /\ calls' = [c \in ColumnIdx |-> <<>>]
    /\ UNCHANGED <<format_settings, need_only_count, parser_type_for_column,
                   templates, attempts_to_deduce_template,
                   attempts_to_deduce_template_cached, rows_parsed_using_template,
                   templates_cache, total_rows, got_exception, buf, rows_seen>>

(***************************************************************************)
(* One iteration of the loop of read() that finds a row in the input.      *)
(***************************************************************************)
ReadRow ==
    /\ UNCHANGED other_vars
    /\ pc = "loop"
    /\ buf.more
    /\ rows_seen < MaxRows
    /\ \E row \in Rows, comma \in BOOLEAN :
         LET skipped == skipToNextRow(RowBytes(row, comma), 1, 0)
             s == IF need_only_count THEN Reader ELSE readRow(Reader, row, rows_in_block)
         IN  /\ need_only_count =>
                   skipped.ret /\ skipped.pos = Len(RowBytes(row, comma)) + 1
             /\ Commit(s)
             /\ last_row' = [cells |-> row, comma |-> comma]
             /\ rows_seen' = rows_seen + 1
             /\ IF s.exc # "none"
                THEN /\ pc' = "idle"
                     /\ RecordException(TRUE)
                     /\ result' = Error(s.exc)
                     /\ UNCHANGED <<rows_in_block, total_rows, expected>>
                ELSE /\ rows_in_block' = rows_in_block + 1
                     /\ pc' = IF rows_in_block + 1 < max_block_size THEN "loop" ELSE "flush"
                     /\ total_rows' = IF need_only_count THEN total_rows ELSE total_rows + 1
                     /\ expected' = IF need_only_count THEN expected
                                    ELSE [c \in ColumnIdx |->
                                            Append(expected[c], IndependentValue(row[c]))]
                     /\ UNCHANGED <<got_exception, result>>
    /\ UNCHANGED <<format_settings, need_only_count, buf>>

(***************************************************************************)
(* One iteration of the loop of read() that finds no row: the input ends   *)
(* here with one of Tails, or it has ended before.  At the end of input    *)
(* or at ';' the loop is left; at another byte readRow fails on its '('    *)
(* (skipToNextRow, in count-only mode, scans to the end of the input).     *)
(***************************************************************************)
ReadBreak ==
    /\ UNCHANGED other_vars
    /\ pc = "loop"
    /\ \E tail \in (IF buf.more THEN Tails ELSE {buf.rest}) :
         LET b == [more |-> FALSE, rest |-> skipWhitespaceIfAny(tail)]
         IN  IF AtEndOrSemicolon(b)
             THEN /\ buf' = b
                  /\ pc' = "flush"
                  /\ UNCHANGED <<rows_in_block, got_exception, result>>
             ELSE IF need_only_count
             THEN /\ buf' = [b EXCEPT !.rest =
                               SubSeq(@, skipToNextRow(@, 1, 0).pos, Len(@))]
                  /\ rows_in_block' = rows_in_block + 1
                  /\ pc' = IF rows_in_block + 1 < max_block_size THEN "loop" ELSE "flush"
                  /\ UNCHANGED <<got_exception, result>>
             ELSE /\ buf' = b
                  /\ pc' = "idle"
                  /\ RecordException(TRUE)
                  /\ result' = Error("CANNOT_PARSE_INPUT_ASSERTION_FAILED")
                  /\ UNCHANGED rows_in_block
    /\ UNCHANGED <<format_settings, need_only_count, parser_type_for_column,
                   templates, attempts_to_deduce_template,
                   attempts_to_deduce_template_cached, rows_parsed_using_template,
                   templates_cache, total_rows, block_missing_values, columns,
                   expected, last_row, calls, rows_seen>>

(***************************************************************************)
(* read() after its loop.                                                  *)
(***************************************************************************)
\* read() that hands the chunk over without evaluating the templates.
evaluateTemplates_skipped(s) == s

\* read() that puts the evaluated rows before the values the column holds.
evaluateTemplates_prepend(s) ==
    [s EXCEPT
       !.columns = [c \in ColumnIdx |->
                      IF s.templates[c] = NoTemplate \/ s.templates[c].rows = <<>>
                      THEN s.columns[c]
                      ELSE EvaluateAll(s.templates[c].shape, s.templates[c].rows)
                             \o s.columns[c]],
       !.templates = [c \in ColumnIdx |->
                      IF s.templates[c] = NoTemplate \/ s.templates[c].rows = <<>>
                      THEN s.templates[c]
                      ELSE evaluateAccumulated(s, c).templates[c]]]

\* Evaluate expressions, which were parsed using templates, if any
evaluateTemplates(s) ==
    [s EXCEPT
       !.columns = [c \in ColumnIdx |->
                      IF s.templates[c] = NoTemplate \/ s.templates[c].rows = <<>>
                      THEN s.columns[c]
                      ELSE evaluateAccumulated(s, c).columns[c]],
       !.templates = [c \in ColumnIdx |->
                      IF s.templates[c] = NoTemplate \/ s.templates[c].rows = <<>>
                      THEN s.templates[c]
                      ELSE evaluateAccumulated(s, c).templates[c]]]

\* read() that never takes the batch for empty.
noRowsRead_never(s, rows) == FALSE

\* read() that looks at the columns in count-only mode too.
noRowsRead_columns(s, rows) == s.columns[1] = <<>>

\* if (!rows_in_block) in count-only mode, else
\* if (columns.empty() || columns[0]->empty())
noRowsRead(s, rows) ==
    IF need_only_count THEN rows = 0 ELSE s.columns[1] = <<>>

ReadEnd ==
    /\ UNCHANGED other_vars
    /\ pc = "flush"
    /\ pc' = "idle"
    /\ LET s == IF need_only_count THEN Reader ELSE evaluateTemplates(Reader)
           empty == noRowsRead(s, rows_in_block)
           suffix == readSuffix(buf)
       IN  /\ columns' = s.columns
           /\ templates' = s.templates
           /\ IF empty
              THEN /\ buf' = suffix.buf
                   /\ RecordException(suffix.exc # "none")
                   /\ result' = IF suffix.exc # "none" THEN Error(suffix.exc)
                                ELSE [kind |-> "end", rows |-> 0, code |-> "none"]
                   /\ UNCHANGED total_rows
              ELSE /\ result' = [kind |-> IF need_only_count THEN "count" ELSE "chunk",
                                 rows |-> IF need_only_count THEN rows_in_block
                                          ELSE Len(s.columns[1]),
                                 code |-> "none"]
                   /\ total_rows' = IF need_only_count THEN total_rows + rows_in_block
                                    ELSE total_rows
                   /\ UNCHANGED <<buf, got_exception>>
    /\ UNCHANGED <<format_settings, need_only_count, parser_type_for_column,
                   attempts_to_deduce_template, attempts_to_deduce_template_cached,
                   rows_parsed_using_template, templates_cache,
                   block_missing_values, rows_in_block, expected, last_row, calls,
                   rows_seen>>

\* The columns and the result of the last read() are the caller's, and gone
\* once the caller turns to the reader again.
Forget ==
    /\ columns' = [c \in ColumnIdx |-> <<>>]
    /\ rows_in_block' = 0
    /\ result' = NoResult
    /\ expected' = [c \in ColumnIdx |-> <<>>]
    /\ last_row' = [cells |-> NoRow, comma |-> FALSE]
    /\ calls' = [c \in ColumnIdx |-> <<>>]

(***************************************************************************)
(* ValuesBlockInputFormat::resetParser, with IInputFormat::resetParser:    *)
(* the rest of the input is ignored and got_exception is cleared.  result  *)
(* then tells that the caller reset the parser, whether an exception was   *)
(* recorded and how many columns held a template.                          *)
(***************************************************************************)
\* resetParser that keeps the parser types after an exception.
resetParser_keeptypes(s, exception) ==
    IF exception
    THEN [s EXCEPT !.templates = [c \in ColumnIdx |-> NoTemplate]]
    ELSE s

\* resetParser that resets the parser modes whether or not an exception was recorded.
resetParser_always(s, exception) ==
    [s EXCEPT !.templates = [c \in ColumnIdx |-> NoTemplate],
              !.parser_type_for_column = [c \in ColumnIdx |-> "Streaming"]]

\* resetParser that starts the counters of the heuristic anew.
resetParser_counters(s, exception) ==
    LET fresh == [s EXCEPT !.attempts_to_deduce_template = [c \in ColumnIdx |-> 0],
                           !.attempts_to_deduce_template_cached = [c \in ColumnIdx |-> 0],
                           !.rows_parsed_using_template = [c \in ColumnIdx |-> 0]]
    IN  IF exception
        THEN [fresh EXCEPT !.templates = [c \in ColumnIdx |-> NoTemplate],
                           !.parser_type_for_column = [c \in ColumnIdx |-> "Streaming"]]
        ELSE fresh

\* resetParser that keeps the templates after an exception.
resetParser_keeptemplates(s, exception) ==
    IF exception
    THEN [s EXCEPT !.parser_type_for_column = [c \in ColumnIdx |-> "Streaming"]]
    ELSE s

resetParser(s, exception) ==
    IF exception
    THEN [s EXCEPT !.templates = [c \in ColumnIdx |-> NoTemplate],
                   !.parser_type_for_column = [c \in ColumnIdx |-> "Streaming"]]
    ELSE s

ResetParser ==
    /\ UNCHANGED other_vars
    /\ pc = "idle"
    /\ LET s == resetParser(Reader, got_exception)
       IN  /\ templates' = s.templates
           /\ parser_type_for_column' = s.parser_type_for_column
    /\ got_exception' = FALSE
    /\ buf' = [more |-> FALSE, rest |-> <<>>]
    /\ total_rows' = 0
    /\ columns' = [c \in ColumnIdx |-> <<>>]
    /\ rows_in_block' = 0
    /\ result' = [kind |-> "reset",
                  rows |-> Cardinality({c \in ColumnIdx : templates[c] # NoTemplate}),
                  code |-> IF got_exception THEN "exception" ELSE "none"]
    /\ expected' = [c \in ColumnIdx |-> <<>>]
    /\ last_row' = [cells |-> NoRow, comma |-> FALSE]
    /\ calls' = [c \in ColumnIdx |-> <<>>]
    /\ UNCHANGED <<format_settings, need_only_count, attempts_to_deduce_template,
                   attempts_to_deduce_template_cached, rows_parsed_using_template,
                   templates_cache, block_missing_values, pc, rows_seen>>

(***************************************************************************)
(* ValuesBlockInputFormat::setReadBuffer: a new input.                     *)
(***************************************************************************)
SetReadBuffer ==
    /\ UNCHANGED other_vars
    /\ pc = "idle"
    /\ buf # FreshBuffer
    /\ buf' = FreshBuffer
    /\ Forget
    /\ UNCHANGED <<format_settings, need_only_count, parser_type_for_column,
                   templates, attempts_to_deduce_template,
                   attempts_to_deduce_template_cached, rows_parsed_using_template,
                   templates_cache, total_rows, got_exception, block_missing_values,
                   pc, rows_seen>>

Next == ReadBegin \/ ReadRow \/ ReadBreak \/ ReadEnd \/ ResetParser \/ SetReadBuffer

Spec == Init /\ [][Next]_vars

(***************************************************************************)
(* The deduction heuristic on its own: the counters of the first column    *)
(* are drawn from 0..MaxCold, 0..MaxCached and 0..MaxReplayed, and either  *)
(* shouldDeduceNewTemplate is called on them, or parseExpression reads a   *)
(* cell f(1) with them.                                                    *)
(***************************************************************************)
MaxCold == 67

MaxCached == 2

MaxReplayed == 101

InitHeuristic ==
    /\ OthersIdle
    /\ format_settings \in [ interpret_expressions : {TRUE},
                             deduce_templates_of_expressions : BOOLEAN,
                             null_as_default : {FALSE} ]
    /\ need_only_count = FALSE
    /\ parser_type_for_column = [c \in ColumnIdx |-> "Streaming"]
    /\ templates = [c \in ColumnIdx |-> NoTemplate]
    /\ \E cold \in 0..MaxCold, cached \in 0..MaxCached, replayed \in 0..MaxReplayed :
         /\ attempts_to_deduce_template = [c \in ColumnIdx |-> IF c = 1 THEN cold ELSE 0]
         /\ attempts_to_deduce_template_cached =
                [c \in ColumnIdx |-> IF c = 1 THEN cached ELSE 0]
         /\ rows_parsed_using_template = [c \in ColumnIdx |-> IF c = 1 THEN replayed ELSE 0]
    /\ templates_cache = {}
    /\ total_rows = 0
    /\ got_exception = FALSE
    /\ block_missing_values = {}
    /\ columns = [c \in ColumnIdx |-> <<>>]
    /\ rows_in_block = 0
    /\ buf = FreshBuffer
    /\ pc = "heuristic"
    /\ result = NoResult
    /\ expected = [c \in ColumnIdx |-> <<>>]
    /\ last_row = [cells |-> NoRow, comma |-> FALSE]
    /\ calls = [c \in ColumnIdx |-> <<>>]
    /\ rows_seen = 0

CallShouldDeduce ==
    /\ UNCHANGED other_vars
    /\ pc = "heuristic"
    /\ pc' = "decided"
    /\ LET s == shouldDeduceNewTemplate(Reader, 1)
       IN  /\ Commit(s)
           /\ result' = [kind |-> "decided", rows |-> 0,
                         code |-> IF s.ret THEN "true" ELSE "false"]
    /\ UNCHANGED <<format_settings, need_only_count, total_rows, got_exception,
                   rows_in_block, buf, expected, last_row, rows_seen>>

ParseWithCounters ==
    /\ UNCHANGED other_vars
    /\ pc = "heuristic"
    /\ pc' = "parsed"
    /\ LET s == parseExpression(Reader, 1, Cell("f", 1))
       IN  /\ Commit(s)
           /\ result' = IF s.exc # "none" THEN Error(s.exc) ELSE Running
    /\ UNCHANGED <<format_settings, need_only_count, total_rows, got_exception,
                   rows_in_block, buf, expected, last_row, rows_seen>>

NextHeuristic == CallShouldDeduce \/ ParseWithCounters

SpecHeuristic == InitHeuristic /\ [][NextHeuristic]_vars

(***************************************************************************)
(* The first column over several cells, read() calls and resetParser()     *)
(* calls, from counters around the threshold of shouldDeduceNewTemplate:   *)
(* what becomes of a column once the answer has been no.  The caller       *)
(* calls resetParser() after a read() that threw.                          *)
(***************************************************************************)
\* The cells read from one state of the counters.
MaxThrottleCells == 2

ThrottleCells ==
    { Cell("lit", 1), Cell("f", 1), Cell("g", 1), Cell("default", 0), Cell("bad", 0),
      Cell("frac", 1) }

InitThrottle ==
    /\ OthersIdle
    /\ format_settings \in [ interpret_expressions : BOOLEAN,
                             deduce_templates_of_expressions : {TRUE},
                             null_as_default : {FALSE} ]
    /\ need_only_count = FALSE
    /\ parser_type_for_column \in [ColumnIdx -> ParserTypes]
    /\ \A c \in ColumnIdx : c # 1 => parser_type_for_column[c] = "Streaming"
    /\ parser_type_for_column[1] = "SingleExpressionEvaluation" =>
          format_settings.interpret_expressions
    /\ templates = [c \in ColumnIdx |->
                      IF parser_type_for_column[c] = "BatchTemplate"
                      THEN NewTemplate("f") ELSE NoTemplate]
    /\ templates_cache =
           IF parser_type_for_column[1] = "BatchTemplate" THEN {<<1, "f">>} ELSE {}
    /\ \E cold \in {0, MaxCold - 1, MaxCold}, cached \in 0..MaxCached,
          replayed \in {0, 1, MaxReplayed - 1, MaxReplayed} :
         \* a column in BatchTemplate has counted an attempt and a row
         /\ parser_type_for_column[1] = "BatchTemplate" =>
               (cold + cached >= 1 /\ replayed >= 1)
         /\ attempts_to_deduce_template = [c \in ColumnIdx |-> IF c = 1 THEN cold ELSE 0]
         /\ attempts_to_deduce_template_cached =
                [c \in ColumnIdx |-> IF c = 1 THEN cached ELSE 0]
         /\ rows_parsed_using_template = [c \in ColumnIdx |-> IF c = 1 THEN replayed ELSE 0]
    /\ total_rows = 0
    /\ got_exception = FALSE
    /\ block_missing_values = {}
    /\ columns = [c \in ColumnIdx |-> <<>>]
    /\ rows_in_block = 0
    /\ buf = FreshBuffer
    /\ pc = "mark"
    /\ result = Running
    /\ expected = [c \in ColumnIdx |-> <<>>]
    /\ last_row = [cells |-> NoRow, comma |-> FALSE]
    /\ calls = [c \in ColumnIdx |-> <<>>]
    /\ rows_seen = 0

\* The body of the loop of readRow for the first column.
ThrottleReadCell ==
    /\ UNCHANGED other_vars
    /\ pc = "mark"
    /\ rows_seen < MaxThrottleCells
    /\ \E cell \in ThrottleCells :
         LET s == readColumn(Reader, 1, cell, rows_in_block)
         IN  /\ Commit(s)
             /\ last_row' = [cells |-> [NoRow EXCEPT ![1] = cell], comma |-> FALSE]
             /\ RecordException(s.exc # "none")
             /\ pc' = IF s.exc # "none" THEN "thrown" ELSE "mark"
             /\ rows_in_block' = IF s.exc # "none" THEN rows_in_block ELSE rows_in_block + 1
             /\ result' = IF s.exc # "none" THEN Error(s.exc) ELSE Running
    /\ rows_seen' = rows_seen + 1
    /\ UNCHANGED <<format_settings, need_only_count, total_rows, buf, expected>>

\* read() returns its rows, the templates evaluated, and is called again.
ThrottleReadEnd ==
    /\ UNCHANGED other_vars
    /\ pc = "mark"
    /\ rows_in_block > 0
    /\ templates' = evaluateTemplates(Reader).templates
    /\ columns' = [c \in ColumnIdx |-> <<>>]
    /\ block_missing_values' = {}
    /\ rows_in_block' = 0
    /\ total_rows' = total_rows + rows_in_block
    /\ UNCHANGED <<format_settings, need_only_count, parser_type_for_column,
                   attempts_to_deduce_template, attempts_to_deduce_template_cached,
                   rows_parsed_using_template, templates_cache, got_exception, buf,
                   pc, result, expected, last_row, calls, rows_seen>>

\* resetParser(), after a read() that threw or between two read() calls,
\* and the next read() up to its loop.
ThrottleReset ==
    /\ UNCHANGED other_vars
    /\ pc = "thrown" \/ (pc = "mark" /\ rows_in_block = 0 /\ total_rows > 0)
    /\ pc' = "mark"
    /\ LET s == resetParser(Reader, got_exception)
       IN  /\ templates' = s.templates
           /\ parser_type_for_column' = s.parser_type_for_column
           /\ attempts_to_deduce_template' = s.attempts_to_deduce_template
           /\ attempts_to_deduce_template_cached' = s.attempts_to_deduce_template_cached
           /\ rows_parsed_using_template' = s.rows_parsed_using_template
           /\ templates_cache' = s.templates_cache
    /\ got_exception' = FALSE
    /\ total_rows' = 0
    /\ columns' = [c \in ColumnIdx |-> <<>>]
    /\ block_missing_values' = {}
    /\ rows_in_block' = 0
    /\ result' = Running
    /\ UNCHANGED <<format_settings, need_only_count, buf, expected, last_row, calls,
                   rows_seen>>

NextThrottle == ThrottleReadCell \/ ThrottleReadEnd \/ ThrottleReset

SpecThrottle == InitThrottle /\ [][NextThrottle]_vars

(***************************************************************************)
(* One cell on its own: the reader is at the mark of a column, in any of   *)
(* the states a read() can have brought it to, and readRow's loop body     *)
(* reads one cell of any kind there.                                       *)
(***************************************************************************)
AllCells ==
    { Cell("lit", 1), Cell("default", 0), Cell("f", 1), Cell("g", 1), Cell("bad", 0),
      Cell("overflow", 1), Cell("fatal", 1), Cell("null", 0), Cell("fnull", 1),
      Cell("lit_tc", 1), Cell("f_tc", 1), Cell("lit_x", 1), Cell("f_x", 1),
      Cell("default_x", 0), Cell("frac", 1) }

\* The reader at the mark of a column, in any state a row can leave it in.
CellReaderStates ==
    /\ OthersIdle
    /\ format_settings \in [ interpret_expressions : BOOLEAN,
                             deduce_templates_of_expressions : BOOLEAN,
                             null_as_default : BOOLEAN ]
    /\ need_only_count = FALSE
    /\ parser_type_for_column \in [ColumnIdx -> ParserTypes]
    \* a column is left in SingleExpressionEvaluation only by an evaluation,
    \* and in BatchTemplate only by a deduction
    /\ \A c \in ColumnIdx :
          /\ parser_type_for_column[c] = "SingleExpressionEvaluation" =>
                format_settings.interpret_expressions
          /\ parser_type_for_column[c] = "BatchTemplate" =>
                format_settings.deduce_templates_of_expressions
    /\ rows_in_block \in {0, 1}
    /\ templates = [c \in ColumnIdx |->
                      IF parser_type_for_column[c] = "BatchTemplate"
                      THEN [shape |-> "f",
                            rows |-> IF rows_in_block = 1 THEN <<1>> ELSE <<>>]
                      ELSE NoTemplate]
    /\ attempts_to_deduce_template =
           [c \in ColumnIdx |-> IF parser_type_for_column[c] = "BatchTemplate" THEN 1 ELSE 0]
    /\ attempts_to_deduce_template_cached = [c \in ColumnIdx |-> 0]
    /\ rows_parsed_using_template =
           [c \in ColumnIdx |-> IF parser_type_for_column[c] = "BatchTemplate" THEN 1 ELSE 0]
    /\ templates_cache =
           {<<c, "f">> : c \in {d \in ColumnIdx : parser_type_for_column[d] = "BatchTemplate"}}
    /\ total_rows = rows_in_block
    /\ got_exception = FALSE
    /\ block_missing_values = {}
    /\ columns = [c \in ColumnIdx |->
                    IF rows_in_block = 0 \/ parser_type_for_column[c] = "BatchTemplate"
                    THEN <<>>
                    ELSE IF parser_type_for_column[c] = "Streaming" THEN <<1>>
                    ELSE <<11>>]
    /\ expected = [c \in ColumnIdx |-> <<>>]
    /\ last_row = [cells |-> NoRow, comma |-> FALSE]
    /\ calls = [c \in ColumnIdx |-> <<>>]
    /\ rows_seen = rows_in_block

InitCell ==
    /\ CellReaderStates
    /\ buf = FreshBuffer
    /\ pc = "cell"
    /\ result = Running

\* templates[column_idx]->parseExpression(...) of tryParseExpressionUsingTemplate
\* would be called on an empty std::optional.
TemplateMissing(c) ==
    parser_type_for_column[c] = "BatchTemplate" /\ templates[c] = NoTemplate

\* The body of the loop of readRow for one column whose template, if it is
\* in BatchTemplate, is there; result tells what it returned (read) or
\* threw.  "cell_again": in a read() called after one that threw.
ReadCell ==
    /\ UNCHANGED other_vars
    /\ pc \in {"cell", "cell_again"}
    /\ pc' = IF pc = "cell" THEN "cell_read" ELSE "cell_read_again"
    /\ \E c \in ColumnIdx, cell \in AllCells :
         LET s == readColumn(Reader, c, cell, rows_in_block)
         IN  /\ ~TemplateMissing(c)
             /\ Commit(s)
             /\ last_row' = [cells |-> [NoRow EXCEPT ![c] = cell], comma |-> FALSE]
             /\ RecordException(got_exception \/ s.exc # "none")
             /\ result' = IF s.exc # "none" THEN Error(s.exc)
                          ELSE [kind |-> "cell", rows |-> c,
                                code |-> IF s.ret THEN "true" ELSE "false"]
    /\ UNCHANGED <<format_settings, need_only_count, total_rows, rows_in_block, buf,
                   expected, rows_seen>>

NextCell == ReadCell

SpecCell == InitCell /\ [][NextCell]_vars

(***************************************************************************)
(* A cell read by a read() that is called after the read() before it threw *)
(* and resetParser() was not called: the columns and the mask are new, the *)
(* parser types, templates and counters are as the exception left them.    *)
(* ReadCell is the loop body of readRow in that read() too.                *)
(***************************************************************************)
\* read() up to its loop, called with the exception of the last read()
\* still recorded.
ReadAgain ==
    /\ UNCHANGED other_vars
    /\ pc = "cell_read"
    /\ got_exception
    /\ pc' = "cell_again"
    /\ columns' = [c \in ColumnIdx |-> <<>>]
    /\ block_missing_values' = {}
    /\ rows_in_block' = 0
    /\ result' = Running
    /\ expected' = [c \in ColumnIdx |-> <<>>]
    /\ last_row' = [cells |-> NoRow, comma |-> FALSE]
    /\ calls' = [c \in ColumnIdx |-> <<>>]
    /\ UNCHANGED <<format_settings, need_only_count, parser_type_for_column,
                   templates, attempts_to_deduce_template,
                   attempts_to_deduce_template_cached, rows_parsed_using_template,
                   templates_cache, total_rows, got_exception, buf, rows_seen>>

\* The loop body of readRow for a column in BatchTemplate that has no
\* template: the empty optional is dereferenced, and what the reader does
\* from there on is not defined.
ReadCellUndefined ==
    /\ UNCHANGED other_vars
    /\ pc = "cell_again"
    /\ pc' = "undefined"
    /\ \E c \in ColumnIdx, cell \in AllCells :
         /\ TemplateMissing(c)
         /\ last_row' = [cells |-> [NoRow EXCEPT ![c] = cell], comma |-> FALSE]
         /\ result' = [kind |-> "undefined", rows |-> c, code |-> "none"]
    /\ UNCHANGED <<format_settings, need_only_count, parser_type_for_column,
                   templates, attempts_to_deduce_template,
                   attempts_to_deduce_template_cached, rows_parsed_using_template,
                   templates_cache, total_rows, got_exception, block_missing_values,
                   columns, rows_in_block, buf, expected, calls, rows_seen>>

NextRetry == ReadCell \/ ReadAgain \/ ReadCellUndefined

SpecRetry == InitCell /\ [][NextRetry]_vars

(***************************************************************************)
(* readRow column by column: the checkpoint of the cursor.  readRow        *)
(* declares a PeekableReadBufferCheckpoint in the body of its loop over    *)
(* the columns: the checkpoint is set where it is declared and dropped     *)
(* where the body is left, at its end or by an exception.  buf.checkpoints *)
(* counts the checkpoints set and not dropped, result.rows is column_idx.  *)
(***************************************************************************)
\* PeekableReadBufferCheckpoint checkpoint{*buf};
setCheckpoint(b) == [b EXCEPT !.checkpoints = @ + 1]

\* A checkpoint that is dropped only when the attempt returns.
dropCheckpoint_onreturn(b, thrown) ==
    IF thrown THEN b ELSE [b EXCEPT !.checkpoints = @ - 1]

\* ~PeekableReadBufferCheckpoint, at the end of the loop body or when an
\* exception leaves it.
dropCheckpoint(b, thrown) == [b EXCEPT !.checkpoints = @ - 1]

InitCheckpoint ==
    /\ CellReaderStates
    /\ buf = [more |-> TRUE, rest |-> <<>>, checkpoints |-> 0]
    /\ pc = "column"
    /\ result = [kind |-> "column", rows |-> 1, code |-> "none"]

\* skipWhitespaceIfAny and the declaration of the checkpoint.
TakeCheckpoint ==
    /\ pc = "column"
    /\ pc' = "attempt"
    /\ buf' = setCheckpoint(buf)
    /\ UNCHANGED <<format_settings, need_only_count, parser_type_for_column,
                   templates, attempts_to_deduce_template,
                   attempts_to_deduce_template_cached, rows_parsed_using_template,
                   templates_cache, total_rows, got_exception, block_missing_values,
                   columns, rows_in_block, result, expected, last_row, calls,
                   rows_seen>>
    /\ UNCHANGED other_vars

\* The attempt for the column: it returns or throws.
AttemptColumn ==
    /\ pc = "attempt"
    /\ pc' = "attempted"
    /\ \E cell \in AllCells :
         LET c == result.rows
             s == readColumn(Reader, c, cell, rows_in_block)
         IN  /\ Commit(s)
             /\ last_row' = [last_row EXCEPT !.cells[c] = cell]
             /\ result' = [kind |-> IF s.exc # "none" THEN "error" ELSE "column",
                           rows |-> c, code |-> s.exc]
    /\ UNCHANGED <<format_settings, need_only_count, total_rows, got_exception,
                   rows_in_block, buf, expected, rows_seen>>
    /\ UNCHANGED other_vars

\* The body of the loop is left: the checkpoint goes out of scope, and the
\* loop goes on to the next column, ends, or is left by the exception.
ReleaseCheckpoint ==
    /\ pc = "attempted"
    /\ buf' = dropCheckpoint(buf, result.kind = "error")
    /\ IF result.kind = "error"
       THEN /\ pc' = "row_left"
            /\ RecordException(TRUE)
            /\ UNCHANGED result
       ELSE IF result.rows < num_columns
       THEN /\ pc' = "column"
            /\ result' = [result EXCEPT !.rows = @ + 1]
            /\ UNCHANGED got_exception
       ELSE /\ pc' = "row_end"
            /\ UNCHANGED <<result, got_exception>>
    /\ UNCHANGED <<format_settings, need_only_count, parser_type_for_column,
                   templates, attempts_to_deduce_template,
                   attempts_to_deduce_template_cached, rows_parsed_using_template,
                   templates_cache, total_rows, block_missing_values,
                   columns, rows_in_block, expected, last_row, calls, rows_seen>>
    /\ UNCHANGED other_vars

\* After the loop: the comma after the row, ++total_rows.
LeaveRow ==
    /\ pc = "row_end"
    /\ pc' = "row_left"
    /\ total_rows' = total_rows + 1
    /\ UNCHANGED <<format_settings, need_only_count, parser_type_for_column,
                   templates, attempts_to_deduce_template,
                   attempts_to_deduce_template_cached, rows_parsed_using_template,
                   templates_cache, got_exception, block_missing_values,
                   columns, rows_in_block, buf, result, expected, last_row, calls,
                   rows_seen>>
    /\ UNCHANGED other_vars

NextCheckpoint == TakeCheckpoint \/ AttemptColumn \/ ReleaseCheckpoint \/ LeaveRow

SpecCheckpoint == InitCheckpoint /\ [][NextCheckpoint]_vars

(***************************************************************************)
(* skipToNextRow on its own.  It is a static function of a buffer and two  *)
(* arguments: read() calls it with (1, 0) at the start of a row,           *)
(* readUntilTheEndOfRowAndReTokenize with (0, 1) inside a row, and the     *)
(* segmentation of a file for parallel parsing with a chunk size.          *)
(***************************************************************************)
\* The longest input of a call, and the largest min_chunk_bytes.
MaxSkipLen == 4

MaxMinChunk == 3

SkipBytes == {"(", ")", "'", "\\", ",", " ", ";"}

\* The sequences over S of a length up to n.
SeqsUpTo(S, n) == UNION { [1..k -> S] : k \in 0..n }

\* A reader that has been constructed and is not used.
FormatIdle ==
    /\ format_settings = [interpret_expressions |-> TRUE,
                          deduce_templates_of_expressions |-> TRUE,
                          null_as_default |-> FALSE]
    /\ need_only_count = FALSE
    /\ parser_type_for_column = [c \in ColumnIdx |-> "Streaming"]
    /\ templates = [c \in ColumnIdx |-> NoTemplate]
    /\ attempts_to_deduce_template = [c \in ColumnIdx |-> 0]
    /\ attempts_to_deduce_template_cached = [c \in ColumnIdx |-> 0]
    /\ rows_parsed_using_template = [c \in ColumnIdx |-> 0]
    /\ templates_cache = {}
    /\ total_rows = 0
    /\ got_exception = FALSE
    /\ block_missing_values = {}
    /\ columns = [c \in ColumnIdx |-> <<>>]
    /\ rows_in_block = 0
    /\ buf = FreshBuffer
    /\ expected = [c \in ColumnIdx |-> <<>>]
    /\ last_row = [cells |-> NoRow, comma |-> FALSE]
    /\ calls = [c \in ColumnIdx |-> <<>>]
    /\ rows_seen = 0

InitSkip ==
    /\ FormatIdle
    /\ skip_args \in [ bytes : SeqsUpTo(SkipBytes, MaxSkipLen),
                       min_chunk_bytes : 0..MaxMinChunk,
                       balance : {0, 1} ]
    /\ schema_reader = NoSchemaReader
    /\ shared_cache = {}
    /\ callers = <<>>
    /\ pc = "skip"
    /\ result = Running

\* One call of skipToNextRow: result holds the position the buffer is left
\* at (rows) and the value returned (code).
SkipToNextRow ==
    /\ pc = "skip"
    /\ pc' = "skipped"
    /\ LET r == skipToNextRow(skip_args.bytes, skip_args.min_chunk_bytes,
                              skip_args.balance)
       IN  result' = [kind |-> "skip", rows |-> r.pos,
                      code |-> IF r.ret THEN "true" ELSE "false"]
    /\ UNCHANGED <<format_settings, need_only_count, parser_type_for_column,
                   templates, attempts_to_deduce_template,
                   attempts_to_deduce_template_cached, rows_parsed_using_template,
                   templates_cache, total_rows, got_exception, block_missing_values,
                   columns, rows_in_block, buf, expected, last_row, calls, rows_seen>>
    /\ UNCHANGED other_vars

NextSkip == SkipToNextRow

SpecSkip == InitSkip /\ [][NextSkip]_vars

(***************************************************************************)
(* ValuesSchemaReader.  Its buffer is the bytes still to be read.  The     *)
(* input has one literal, the byte v (a run of them is one literal too);   *)
(* no byte order mark.                                                     *)
(***************************************************************************)
\* The longest document handed to a schema reader.
MaxDocLen == 5

SchemaBytes == {"(", ")", ",", ";", " ", "v"}

\* readQuotedField: it takes the literal the buffer is at; at any other byte
\* it takes nothing and gives an empty value.
RECURSIVE readQuotedField(_)
readQuotedField(bytes) ==
    IF bytes # <<>> /\ Head(bytes) = "v" THEN readQuotedField(Tail(bytes))
    ELSE bytes

\* while (!buf.eof() && *buf.position() != ')'): the buffer after the loop,
\* the number of types pushed, and whether assertChar(',') threw.
RECURSIVE readDataTypes(_, _)
readDataTypes(bytes, data_types) ==
    IF bytes = <<>> \/ Head(bytes) = ")"
    THEN [buf |-> bytes, data_types |-> data_types, exc |-> "none"]
    ELSE IF data_types > 0 /\ Head(bytes) # ","
    THEN [buf |-> bytes, data_types |-> data_types,
          exc |-> "CANNOT_PARSE_INPUT_ASSERTION_FAILED"]
    ELSE LET at_value == IF data_types > 0 THEN skipWhitespaceIfAny(Tail(bytes))
                         ELSE bytes
         IN  readDataTypes(skipWhitespaceIfAny(readQuotedField(at_value)),
                           data_types + 1)

\* What a call gives: the reader after it, the number of types (kind
\* "types"), end-of-data (kind "end") or the exception (kind "error").
SchemaResult(r, kind, data_types, code) ==
    [reader |-> r, kind |-> kind, rows |-> data_types, code |-> code]

\* readRowAndGetDataTypes that does not remember the terminator.
readRowAndGetDataTypes_forgetful(r) ==
    LET at_row == skipWhitespaceIfAny(r.buf)
        r1 == [r EXCEPT !.first_row = FALSE, !.buf = at_row]
    IN  IF at_row = <<>> THEN SchemaResult(r1, "end", 0, "none")
        ELSE IF Head(at_row) # "("
        THEN SchemaResult(r1, "error", 0, "CANNOT_PARSE_INPUT_ASSERTION_FAILED")
        ELSE LET row == readDataTypes(skipWhitespaceIfAny(Tail(at_row)), 0)
                 after_row == skipWhitespaceIfAny(Tail(row.buf))
                 after_comma == IF after_row # <<>> /\ Head(after_row) = ","
                                THEN Tail(after_row) ELSE after_row
                 terminated == after_comma # <<>> /\ Head(after_comma) = ";"
             IN  IF row.exc # "none" \/ row.buf = <<>>
                 THEN SchemaResult([r1 EXCEPT !.buf = row.buf], "error", 0,
                                   "CANNOT_PARSE_INPUT_ASSERTION_FAILED")
                 ELSE SchemaResult(
                        [r1 EXCEPT !.buf = IF terminated THEN Tail(after_comma)
                                           ELSE after_comma,
                                   !.end_of_data = terminated],
                        "types", row.data_types, "none")

\* ValuesSchemaReader::readRowAndGetDataTypes
readRowAndGetDataTypes(r) ==
    LET at_row == skipWhitespaceIfAny(r.buf)
        r1 == [r EXCEPT !.first_row = FALSE, !.buf = at_row]
    IN  IF at_row = <<>> \/ r.end_of_data THEN SchemaResult(r1, "end", 0, "none")
        ELSE IF Head(at_row) # "("
        THEN SchemaResult(r1, "error", 0, "CANNOT_PARSE_INPUT_ASSERTION_FAILED")
        ELSE LET row == readDataTypes(skipWhitespaceIfAny(Tail(at_row)), 0)
                 after_row == skipWhitespaceIfAny(Tail(row.buf))
                 after_comma == IF after_row # <<>> /\ Head(after_row) = ","
                                THEN Tail(after_row) ELSE after_row
                 terminated == after_comma # <<>> /\ Head(after_comma) = ";"
             IN  IF row.exc # "none" \/ row.buf = <<>>
                 THEN SchemaResult([r1 EXCEPT !.buf = row.buf], "error", 0,
                                   "CANNOT_PARSE_INPUT_ASSERTION_FAILED")
                 ELSE SchemaResult(
                        [r1 EXCEPT !.buf = IF terminated THEN Tail(after_comma)
                                           ELSE after_comma,
                                   !.end_of_data = r.end_of_data \/ terminated],
                        "types", row.data_types, "none")

InitSchema ==
    /\ FormatIdle
    /\ skip_args = NoSkipArgs
    /\ schema_reader \in [ buf : SeqsUpTo(SchemaBytes, MaxDocLen),
                           first_row : {TRUE},
                           end_of_data : {FALSE} ]
    /\ shared_cache = {}
    /\ callers = <<>>
    /\ pc = "schema"
    /\ result = Running

\* One call of readRowAndGetDataTypes.  IRowSchemaReader calls it until it
\* gives no types; other callers may call it again after that, but not after
\* an exception.
ReadRowAndGetDataTypes ==
    /\ pc = "schema"
    /\ LET r == readRowAndGetDataTypes(schema_reader)
       IN  /\ schema_reader' = r.reader
           /\ result' = [kind |-> r.kind, rows |-> r.rows, code |-> r.code]
           /\ pc' = IF r.kind = "error" THEN "schema_failed" ELSE "schema"
    /\ UNCHANGED <<format_settings, need_only_count, parser_type_for_column,
                   templates, attempts_to_deduce_template,
                   attempts_to_deduce_template_cached, rows_parsed_using_template,
                   templates_cache, total_rows, got_exception, block_missing_values,
                   columns, rows_in_block, buf, expected, last_row, calls, rows_seen>>
    /\ UNCHANGED <<skip_args, shared_cache, callers>>

NextSchema == ReadRowAndGetDataTypes

SpecSchema == InitSchema /\ [][NextSchema]_vars

(***************************************************************************)
(* The template cache shared by several readers (Template Cache,           *)
(* getOrConstruct).  A caller looks the key up; on a miss it compiles a    *)
(* template of its own, without holding the cache, and then stores it      *)
(* unless the key has got an entry meanwhile, in which case it takes that  *)
(* entry.  A template is partial while it is compiled.                     *)
(***************************************************************************)
\* The readers that share the cache.
MaxCallers == 2

CallerIdx == 1..MaxCallers

SharedKeys == {<<1, "f">>, <<1, "g">>}

NoSharedTemplate == [key |-> <<0, "none">>, by |-> 0, complete |-> FALSE]

IdleCaller == [pc |-> "idle", key |-> <<0, "none">>, mine |-> NoSharedTemplate,
               got |-> NoSharedTemplate, hit |-> FALSE]

\* The entries the cache has for key.
Entries(cache, key) == {e \in cache : e.key = key}

\* A cache that stores whatever it is given.
insertIfAbsent_always(cache, entry) == cache \cup {entry}

\* Store entry unless its key has an entry.
insertIfAbsent(cache, entry) ==
    IF Entries(cache, entry.key) # {} THEN cache ELSE cache \cup {entry}

InitCache ==
    /\ FormatIdle
    /\ skip_args = NoSkipArgs
    /\ schema_reader = NoSchemaReader
    /\ shared_cache = {}
    /\ callers = [i \in CallerIdx |-> IdleCaller]
    /\ pc = "cache"
    /\ result = Running

FormatUntouched ==
    UNCHANGED <<format_settings, need_only_count, parser_type_for_column,
                templates, attempts_to_deduce_template,
                attempts_to_deduce_template_cached, rows_parsed_using_template,
                templates_cache, total_rows, got_exception, block_missing_values,
                columns, rows_in_block, buf, expected, last_row, calls, rows_seen,
                pc, result, skip_args, schema_reader>>

\* Reader i calls getOrConstruct for a key.
CacheCall(i) ==
    /\ callers[i].pc = "idle"
    /\ \E key \in SharedKeys :
          callers' = [callers EXCEPT ![i] = [IdleCaller EXCEPT !.pc = "lookup",
                                                              !.key = key]]
    /\ UNCHANGED shared_cache
    /\ FormatUntouched

\* The lookup: a hit returns the entry; a miss starts a compilation.
CacheLookup(i) ==
    /\ callers[i].pc = "lookup"
    /\ LET found == Entries(shared_cache, callers[i].key)
       IN  IF found # {}
           THEN \E e \in found :
                   callers' = [callers EXCEPT ![i].pc = "done", ![i].got = e,
                                              ![i].hit = TRUE]
           ELSE callers' = [callers EXCEPT
                              ![i].pc = "construct",
                              ![i].mine = [key |-> callers[i].key, by |-> i,
                                           complete |-> FALSE]]
    /\ UNCHANGED shared_cache
    /\ FormatUntouched

\* The compilation ends: the caller's template is complete.
CacheConstruct(i) ==
    /\ callers[i].pc = "construct"
    /\ callers' = [callers EXCEPT ![i].pc = "insert", ![i].mine.complete = TRUE]
    /\ UNCHANGED shared_cache
    /\ FormatUntouched

\* The caller stores its template and returns the entry of the key.
CacheInsert(i) ==
    /\ callers[i].pc = "insert"
    /\ shared_cache' = insertIfAbsent(shared_cache, callers[i].mine)
    /\ \E e \in Entries(shared_cache', callers[i].key) :
          callers' = [callers EXCEPT ![i].pc = "done", ![i].got = e]
    /\ FormatUntouched

\* The reader has taken the template; it may call again.
CacheReturn(i) ==
    /\ callers[i].pc = "done"
    /\ callers' = [callers EXCEPT ![i] = IdleCaller]
    /\ UNCHANGED shared_cache
    /\ FormatUntouched

NextCache ==
    \E i \in CallerIdx :
       \/ CacheCall(i)
       \/ CacheLookup(i)
       \/ CacheConstruct(i)
       \/ CacheInsert(i)
       \/ CacheReturn(i)

SpecCache == InitCache /\ [][NextCache]_vars

(***************************************************************************)
(* Two readers of one input: the format's own variables are the reader     *)
(* constructed for reading the rows, callers[1] is a reader constructed    *)
(* for counting them (need_only_count).  The whole input is in the buffer  *)
(* of each.  The header is (String, UInt8); the rows hold literals of      *)
(* these types, which the streaming parser reads.                          *)
(***************************************************************************)
\* The most rows of an input.
MaxModeRows == 2

\* Rows: ('',1)  (')',1)  ( '\'' , 1 )
ModeRows ==
    { <<"(", "'", "'", ",", "1", ")">>,
      <<"(", "'", ")", "'", ",", "1", ")">>,
      <<"(", " ", "'", "\\", "'", "'", " ", ",", " ", "1", " ", ")">> }

\* What stands between two rows, and may stand after the last one.
ModeSeparators == { <<",">>, <<",", " ">>, <<" ", ",">> }

\* What ends the input.
ModeEnds == { <<>>, <<";">>, <<";", " ">> }

\* The inputs of n rows.
RECURSIVE ModeDocuments(_)
ModeDocuments(n) ==
    IF n = 0 THEN ModeEnds
    ELSE IF n = 1
    THEN { r \o s \o e : r \in ModeRows, s \in ModeSeparators \cup {<<>>}, e \in ModeEnds }
    ELSE { r \o s \o d : r \in ModeRows, s \in ModeSeparators, d \in ModeDocuments(n - 1) }

\* readQuotedString after the opening quote: the bytes after the closing
\* quote; a backslash takes the byte after it along.
RECURSIVE readQuotedStringBody(_)
readQuotedStringBody(bytes) ==
    IF bytes = <<>> THEN [rest |-> <<>>, ok |-> FALSE]
    ELSE IF Head(bytes) = "'" THEN [rest |-> Tail(bytes), ok |-> TRUE]
    ELSE IF Head(bytes) = "\\"
    THEN IF Len(bytes) < 2 THEN [rest |-> <<>>, ok |-> FALSE]
         ELSE readQuotedStringBody(Tail(Tail(bytes)))
    ELSE readQuotedStringBody(Tail(bytes))

\* readIntText: the digits the buffer is at.
RECURSIVE readDigits(_)
readDigits(bytes) ==
    IF bytes # <<>> /\ Head(bytes) = "1" THEN readDigits(Tail(bytes))
    ELSE bytes

\* serialization->deserializeTextQuoted of column c on bytes: a quoted
\* string for the String column, digits for the UInt8 column.
deserializeTextQuotedBytes(bytes, c) ==
    IF c = 1
    THEN IF bytes # <<>> /\ Head(bytes) = "'" THEN readQuotedStringBody(Tail(bytes))
         ELSE [rest |-> bytes, ok |-> FALSE]
    ELSE [rest |-> readDigits(bytes), ok |-> bytes # <<>> /\ Head(bytes) = "1"]

\* checkDelimiterAfterValue on bytes: ',' after a column that is not the
\* last, an optional ',' and then ')' after the last.
checkDelimiterAfterValueBytes(bytes, c) ==
    LET at == skipWhitespaceIfAny(bytes)
    IN  IF c # num_columns
        THEN [rest |-> IF at # <<>> /\ Head(at) = "," THEN Tail(at) ELSE at,
              ok |-> at # <<>> /\ Head(at) = ","]
        ELSE LET after_comma == IF at # <<>> /\ Head(at) = ","
                                THEN skipWhitespaceIfAny(Tail(at)) ELSE at
             IN  [rest |-> IF after_comma # <<>> /\ Head(after_comma) = ")"
                           THEN Tail(after_comma) ELSE after_comma,
                  ok |-> after_comma # <<>> /\ Head(after_comma) = ")"]

\* tryReadValue on bytes, for a column of the streaming parser.  A value the
\* streaming parser cannot read goes to parseExpression, which finds no
\* expression of the column's type in these inputs and throws.
tryReadValueBytes(bytes, c) ==
    LET value == deserializeTextQuotedBytes(bytes, c)
        delimiter == checkDelimiterAfterValueBytes(value.rest, c)
    IN  IF value.ok /\ delimiter.ok THEN [rest |-> delimiter.rest, exc |-> "none"]
        ELSE [rest |-> bytes, exc |-> "SYNTAX_ERROR"]

\* The loop of readRow over the columns: after[c] is the buffer after
\* column c and the exception of the column that threw.
readColumnsBytes(bytes) ==
    LET after[c \in 0..num_columns] ==
            IF c = 0 THEN [rest |-> bytes, exc |-> "none"]
            ELSE IF after[c - 1].exc # "none" THEN after[c - 1]
            ELSE tryReadValueBytes(skipWhitespaceIfAny(after[c - 1].rest), c)
    IN  after[num_columns]

\* The end of readRow, after the columns left the buffer at row.rest or
\* threw: whitespace, and the comma if the buffer is at one.
afterColumns(row, after_row) ==
    IF row.exc # "none" THEN row
    ELSE [rest |-> IF after_row # <<>> /\ Head(after_row) = ","
                   THEN Tail(after_row) ELSE after_row,
          exc |-> "none"]

\* readRow on bytes: assertChar('('), the columns, whitespace, and the
\* comma if the buffer is at one.
readRowBytes(bytes) ==
    IF bytes = <<>> \/ Head(bytes) # "("
    THEN [rest |-> bytes, exc |-> "CANNOT_PARSE_INPUT_ASSERTION_FAILED"]
    ELSE afterColumns(readColumnsBytes(Tail(bytes)),
                      skipWhitespaceIfAny(readColumnsBytes(Tail(bytes)).rest))

\* The bytes from position pos on.
BytesFrom(bytes, pos) == SubSeq(bytes, pos, Len(bytes))

\* A row of the loop of read(): skipToNextRow(*buf, 1, 0) in count-only
\* mode, readRow otherwise.
readOneRow(bytes, only_count) ==
    IF only_count
    THEN [rest |-> BytesFrom(bytes, skipToNextRow(bytes, 1, 0).pos), exc |-> "none"]
    ELSE readRowBytes(bytes)

\* A round of the loop of read() that is at a row: the row is read or
\* skipped and counted, or its exception leaves the loop.
rowRound(before, row) ==
    IF row.exc # "none" THEN [before EXCEPT !.rest = row.rest, !.exc = row.exc]
    ELSE [before EXCEPT !.rest = row.rest, !.rows = @ + 1]

\* A round of the loop of read() with the buffer at at_row after the
\* whitespace: it leaves the loop at the end of the input and at ';'.
loopRound(before, at_row, only_count) ==
    IF before.broke \/ before.exc # "none" THEN before
    ELSE IF at_row = <<>> \/ Head(at_row) = ";"
    THEN [before EXCEPT !.rest = at_row, !.broke = TRUE]
    ELSE rowRound(before, readOneRow(at_row, only_count))

\* The loop of read(): after[k] is the reader after k rounds, with the
\* buffer, the rows it went through, the exception of the row that threw,
\* and whether it left the loop at the end of the data.
readLoop(bytes, only_count) ==
    LET after[k \in 0..max_block_size] ==
            IF k = 0
            THEN [rest |-> bytes, rows |-> 0, exc |-> "none", broke |-> FALSE]
            ELSE loopRound(after[k - 1], skipWhitespaceIfAny(after[k - 1].rest),
                           only_count)
    IN  after[max_block_size]

\* What read() returns after its loop: the exception, the end of the data
\* after readSuffix() when the loop went through no row, or the rows.
afterLoop(b, loop, only_count) ==
    LET after_loop == [b EXCEPT !.rest = loop.rest]
        suffix == readSuffix(after_loop)
    IN  IF loop.exc # "none" THEN [buf |-> after_loop, result |-> Error(loop.exc)]
        ELSE IF loop.rows = 0
        THEN [buf |-> suffix.buf,
              result |-> IF suffix.exc # "none" THEN Error(suffix.exc)
                         ELSE [kind |-> "end", rows |-> 0, code |-> "none"]]
        ELSE [buf |-> after_loop,
              result |-> [kind |-> IF only_count THEN "count" ELSE "chunk",
                          rows |-> loop.rows, code |-> "none"]]

\* read() on a buffer that holds the rest of the input: the buffer after
\* it, and the chunk, the end of the data or the exception it gives.
readBytes(b, only_count) == afterLoop(b, readLoop(b.rest, only_count), only_count)

\* The reader constructed for counting, before its first read().
CountingReader(input) ==
    [input |-> input, buf |-> [more |-> FALSE, rest |-> input],
     total_rows |-> 0, result |-> Running]

InitModes ==
    /\ format_settings = [interpret_expressions |-> TRUE,
                          deduce_templates_of_expressions |-> TRUE,
                          null_as_default |-> FALSE]
    /\ need_only_count = FALSE
    /\ parser_type_for_column = [c \in ColumnIdx |-> "Streaming"]
    /\ templates = [c \in ColumnIdx |-> NoTemplate]
    /\ attempts_to_deduce_template = [c \in ColumnIdx |-> 0]
    /\ attempts_to_deduce_template_cached = [c \in ColumnIdx |-> 0]
    /\ rows_parsed_using_template = [c \in ColumnIdx |-> 0]
    /\ templates_cache = {}
    /\ total_rows = 0
    /\ got_exception = FALSE
    /\ block_missing_values = {}
    /\ columns = [c \in ColumnIdx |-> <<>>]
    /\ rows_in_block = 0
    /\ expected = [c \in ColumnIdx |-> <<>>]
    /\ last_row = [cells |-> NoRow, comma |-> FALSE]
    /\ calls = [c \in ColumnIdx |-> <<>>]
    /\ rows_seen = 0
    /\ skip_args = NoSkipArgs
    /\ schema_reader = NoSchemaReader
    /\ shared_cache = {}
    /\ \E n \in 0..MaxModeRows : \E input \in ModeDocuments(n) :
          /\ buf = [more |-> FALSE, rest |-> input]
          /\ callers = <<CountingReader(input)>>
    /\ pc = "rows"
    /\ result = Running

\* A read() of either reader has come to the end of the data or has thrown.
Over(r) == r.kind \in {"end", "error"}

\* The reader of the rows after a read() that gave r.
RowsReaderAfter(r) ==
    /\ buf' = r.buf
    /\ result' = r.result
    /\ rows_in_block' = r.result.rows
    /\ total_rows' = total_rows + r.result.rows
    /\ RecordException(r.result.kind = "error")

\* read() of the reader of the rows.
ReadRowsMode ==
    /\ pc = "rows"
    /\ pc' = "count"
    /\ RowsReaderAfter(readBytes(buf, need_only_count))
    /\ UNCHANGED <<format_settings, need_only_count, parser_type_for_column, templates,
                   attempts_to_deduce_template, attempts_to_deduce_template_cached,
                   rows_parsed_using_template, templates_cache, block_missing_values,
                   columns, expected, last_row, calls, rows_seen>>
    /\ UNCHANGED other_vars

\* The reader that counts after a read() that gave r; the callers stop once
\* either reader has come to the end of the data or has thrown.
CountingReaderAfter(r) ==
    /\ callers' = <<[callers[1] EXCEPT
                       !.buf = r.buf,
                       !.result = r.result,
                       !.total_rows = @ + r.result.rows]>>
    /\ pc' = IF Over(result) \/ Over(r.result) THEN "done" ELSE "rows"

\* read() of the reader that counts.
ReadCountMode ==
    /\ pc = "count"
    /\ CountingReaderAfter(readBytes(callers[1].buf, TRUE))
    /\ UNCHANGED <<format_settings, need_only_count, parser_type_for_column, templates,
                   attempts_to_deduce_template, attempts_to_deduce_template_cached,
                   rows_parsed_using_template, templates_cache, total_rows,
                   got_exception, block_missing_values, columns, rows_in_block, buf,
                   result, expected, last_row, calls, rows_seen>>
    /\ UNCHANGED <<skip_args, schema_reader, shared_cache>>

NextModes == ReadRowsMode \/ ReadCountMode

SpecModes == InitModes /\ [][NextModes]_vars

(***************************************************************************)
(* Properties.                                                             *)
(***************************************************************************)
\* Whether x is among the elements of seq, and the index of its first occurrence.
In(seq, x) == \E i \in 1..Len(seq) : seq[i] = x

Position(seq, x) ==
    IF In(seq, x)
    THEN CHOOSE i \in 1..Len(seq) : seq[i] = x /\ \A j \in 1..(i - 1) : seq[j] # x
    ELSE 0

Last(seq) == seq[Len(seq)]

\* The step is a loop iteration of read(), not count-only, that read a row.
RowStep == rows_seen' = rows_seen + 1 /\ ~need_only_count

\* read() returns in this step.
ReturnStep == pc = "flush" /\ pc' = "idle"

\* The cell the row of this step has in column c, which the step attempted.
CellOf(c) == last_row'.cells[c]

Attempted(c) == calls'[c] # <<>>

\* C1: in a column whose rows carry expressions of one shape, the strategy is
\* BatchTemplate after the row on which the template was deduced and after
\* every later row of that shape, each row adding its literals to the
\* template; and the columns of every chunk read() returns hold, position by
\* position and in row order, the values of the cells evaluated on their own.
C1_TemplateRowsEvaluateAsIndependent ==
    [][ /\ RowStep =>
            \A c \in ColumnIdx :
               LET matched == parser_type_for_column[c] = "BatchTemplate"
                                /\ TemplateMatches(c, templates[c], CellOf(c))
                   deduced == In(calls'[c], "getFromCacheOrConstruct")
                                /\ templates'[c] # NoTemplate
               IN  (Attempted(c) /\ CellOf(c).kind \in {"f", "g"} /\ (matched \/ deduced)) =>
                      /\ parser_type_for_column'[c] = "BatchTemplate"
                      /\ templates'[c].shape = CellOf(c).kind
                      /\ templates'[c].rows =
                            (IF matched THEN templates[c].rows ELSE <<>>) \o <<CellOf(c).lit>>
        /\ (ReturnStep /\ result'.kind = "chunk") =>
            \A c \in ColumnIdx : columns'[c] = expected'[c]
      ]_vars

\* C1 witness: a chunk of two rows whose first column read f(1) and f(2) by template.
C1_Witness ==
    /\ pc = "idle" /\ result.kind = "chunk" /\ result.rows = 2
    /\ parser_type_for_column[1] = "BatchTemplate"
    /\ expected[1] = <<11, 12>>
    /\ columns[1] = <<11, 12>>

\* C2: when a column is BatchTemplate and the row's expression does not match
\* the template, the accumulated rows are evaluated and appended to the column
\* before anything of the current row, the template is discarded before the
\* full-expression path parses the row, and a template the column holds
\* afterwards was constructed anew and holds the current row only.
C2_ShapeChangeFlushesThenDiscards ==
    [][ RowStep =>
          \A c \in ColumnIdx :
             (/\ Attempted(c)
              /\ parser_type_for_column[c] = "BatchTemplate"
              /\ ~TemplateMatches(c, templates[c], CellOf(c))) =>
                LET flushed == columns[c] \o EvaluateAll(templates[c].shape, templates[c].rows)
                    log == calls'[c]
                IN  /\ Len(columns'[c]) \in {Len(flushed), Len(flushed) + 1}
                    /\ SubSeq(columns'[c], 1, Len(flushed)) = flushed
                    /\ In(log, "evaluateAll") /\ In(log, "templates.reset")
                    /\ In(log, "parseExpression")
                    /\ Position(log, "evaluateAll") < Position(log, "templates.reset")
                    /\ Position(log, "templates.reset") < Position(log, "parseExpression")
                    /\ \A i \in 1..Len(log) :
                          (i > Position(log, "templates.reset")
                             /\ log[i] = "template.parseExpression") =>
                                \E j \in 1..(i - 1) :
                                   /\ j > Position(log, "templates.reset")
                                   /\ log[j] = "getFromCacheOrConstruct"
                    /\ templates'[c] # NoTemplate =>
                          /\ In(log, "getFromCacheOrConstruct")
                          /\ templates'[c].rows = <<CellOf(c).lit>>
      ]_vars

\* C2 witness: f(1) was accumulated, then g(1) came: 11 is in the column and
\* the column's template is a new one, of g, holding that one row.
C2_Witness ==
    /\ pc \in {"loop", "flush"}
    /\ In(calls[1], "templates.reset")
    /\ columns[1] = <<11>>
    /\ templates[1] = [shape |-> "g", rows |-> <<1>>]

AllLiterals == \A c \in ColumnIdx : CellOf(c).kind = "lit"

ParsingCalls ==
    { "deserializeTextQuoted", "deserializeNullAsDefaultOrNestedTextQuoted",
      "parser.parse", "template.parseExpression", "getFromCacheOrConstruct",
      "evaluateConstantExpression" }

\* C4: whatever the column's strategy, a cell DEFAULT gets the column's
\* default appended and its bit of the mask set, and neither the literal
\* deserializer nor the expression parser, the template or the evaluator is
\* called for it.
C4_DefaultNeverParsed ==
    [][ RowStep =>
          \A c \in ColumnIdx :
             (Attempted(c) /\ CellOf(c).kind = "default") =>
                /\ columns'[c] = Append(columns[c], DefaultValue)
                /\ <<c, rows_in_block>> \in block_missing_values'
                /\ \A i \in 1..Len(calls'[c]) : calls'[c][i] \notin ParsingCalls
      ]_vars

\* C5: all columns of a chunk read() returns have the same length, the number
\* of rows this read() consumed, which is at most max_block_size.
C5_ChunkColumnsHaveRowsInBlock ==
    (pc = "idle" /\ result.kind = "chunk") =>
        /\ \A c \in ColumnIdx : Len(columns[c]) = rows_in_block
        /\ result.rows = rows_in_block
        /\ rows_in_block >= 1 /\ rows_in_block <= max_block_size

\* C5 witness: a full chunk whose first column went from the streaming parser
\* to a template within the batch while the last column stayed Streaming.
C5_Witness ==
    /\ pc = "idle" /\ result.kind = "chunk" /\ result.rows = max_block_size
    /\ columns[1][1] = 1 /\ Last(columns[1]) = 21
    /\ parser_type_for_column[1] = "BatchTemplate"
    /\ parser_type_for_column[num_columns] = "Streaming"

\* The input wholly read.
EndOfInput == [more |-> FALSE, rest |-> <<>>]

OnlyWhitespace(bytes) == \A i \in 1..Len(bytes) : bytes[i] = " "

C7_EndOfDataBoundary ==
    [][ /\ (RowStep /\ AllLiterals /\ ~last_row'.comma) =>
              /\ rows_in_block' = rows_in_block + 1
              /\ result'.kind # "error"
        /\ (ReturnStep /\ rows_in_block > 0 /\ ~need_only_count /\ ~last_row.comma) =>
              /\ result'.kind = "chunk"
              /\ ~got_exception'
        /\ (ReturnStep /\ rows_in_block = 0 /\ buf.rest # <<>> /\ Head(buf.rest) = ";") =>
              IF OnlyWhitespace(Tail(buf.rest))
              THEN /\ result'.kind = "end"
                   /\ ~got_exception'
              ELSE /\ result' = Error("CANNOT_READ_ALL_DATA")
                   /\ got_exception'
                   /\ rows_seen' = rows_seen
      ]_vars

\* C7 witness: one row was returned, and the next read() found ';' followed
\* by a byte that is not whitespace.
C7_Witness ==
    /\ pc = "idle" /\ result = Error("CANNOT_READ_ALL_DATA")
    /\ got_exception /\ total_rows = 1
    /\ buf.rest # <<>> /\ Head(buf.rest) = "x"

\* Whether a column with these counters is to deduce a template, in tenths:
\* the score 1.5 * cold + 0.5 * cached is below 100, or it is at least 100
\* and replayed / score exceeds 1.
ScoreBelowThreshold(cold, cached) == 15 * cold + 5 * cached < 10 * max_attempts

TemplatesPayOff(cold, cached, replayed) ==
    /\ 15 * cold + 5 * cached >= 10 * max_attempts
    /\ 10 * replayed > 15 * cold + 5 * cached

\* C8: with template deduction enabled shouldDeduceNewTemplate returns true
\* iff the score is below 100, or is at least 100 with replayed / score > 1;
\* in the second case it zeroes the three counters of the column and in every
\* other case it leaves them as they are; when it returns false,
\* parseExpression constructs no template and evaluates the expression on
\* its own.
C8_DeductionHeuristic ==
    [][ LET cold == attempts_to_deduce_template[1]
            cached == attempts_to_deduce_template_cached[1]
            replayed == rows_parsed_using_template[1]
        IN  (pc = "heuristic" /\ format_settings.deduce_templates_of_expressions) =>
              /\ pc' = "decided" =>
                    /\ (result'.code = "true") <=>
                          (ScoreBelowThreshold(cold, cached)
                             \/ TemplatesPayOff(cold, cached, replayed))
                    /\ IF TemplatesPayOff(cold, cached, replayed)
                       THEN /\ attempts_to_deduce_template'[1] = 0
                            /\ attempts_to_deduce_template_cached'[1] = 0
                            /\ rows_parsed_using_template'[1] = 0
                       ELSE UNCHANGED <<attempts_to_deduce_template,
                                        attempts_to_deduce_template_cached,
                                        rows_parsed_using_template>>
              /\ (/\ pc' = "parsed"
                  /\ ~ScoreBelowThreshold(cold, cached)
                  /\ ~TemplatesPayOff(cold, cached, replayed)) =>
                    /\ ~In(calls'[1], "getFromCacheOrConstruct")
                    /\ In(calls'[1], "evaluateConstantExpression")
                    /\ parser_type_for_column'[1] = "SingleExpressionEvaluation"
                    /\ templates'[1] = NoTemplate
                    /\ columns'[1] = <<IndependentValue(Cell("f", 1))>>
      ]_vars

\* C8 witness: after 67 cold attempts and no replayed row the answer is no.
C8_Witness ==
    /\ pc = "decided" /\ result.code = "false"
    /\ format_settings.deduce_templates_of_expressions
    /\ attempts_to_deduce_template[1] = 67
    /\ attempts_to_deduce_template_cached[1] = 0
    /\ rows_parsed_using_template[1] = 0

AllStreamingNoTemplate ==
    /\ \A c \in ColumnIdx : parser_type_for_column[c] = "Streaming"
    /\ \A c \in ColumnIdx : templates[c] = NoTemplate

C10_StrategiesAndTemplatesOutliveBatch ==
    [][ /\ (ReturnStep /\ result'.kind # "error") =>
              /\ parser_type_for_column' = parser_type_for_column
              /\ \A c \in ColumnIdx :
                    templates'[c] = [templates[c] EXCEPT !.rows = <<>>]
        /\ (pc = "idle" /\ result'.kind = "reset" /\ ~got_exception) =>
              /\ parser_type_for_column' = parser_type_for_column
              /\ templates' = templates
              /\ total_rows' = 0
        /\ (RowStep /\ rows_in_block = 0) =>
              \A c \in ColumnIdx :
                 (/\ Attempted(c)
                  /\ parser_type_for_column[c] = "BatchTemplate"
                  /\ ParseExpr(CellOf(c)).shape = templates[c].shape) =>
                    /\ calls'[c] = <<"tryParseExpressionUsingTemplate",
                                     "template.parseExpression">>
                    /\ templates'[c] = [templates[c] EXCEPT !.rows = <<CellOf(c).lit>>]
                    /\ parser_type_for_column'[c] = "BatchTemplate"
      ]_vars

\* C10 witness: the parser was reset with no exception recorded after a
\* batch that left the first column a template, and the first row of the
\* next input is bound by that template.
C10_Witness ==
    /\ pc \in {"loop", "flush"} /\ rows_in_block = 1 /\ total_rows = 1
    /\ rows_seen >= 2
    /\ parser_type_for_column[1] = "BatchTemplate"
    /\ templates[1] = [shape |-> "f", rows |-> <<2>>]
    /\ calls[1] = <<"tryParseExpressionUsingTemplate", "template.parseExpression">>

\* The call of the literal deserializer, in either of its two forms.
DeserializerCalls ==
    {"deserializeTextQuoted", "deserializeNullAsDefaultOrNestedTextQuoted"}

\* C11: when the literal deserializer fails on a cell with
\* ARGUMENT_OUT_OF_BOUND or with an error that is no parse error, that error
\* leaves read(): the deserializer is the last thing called for the cell (no
\* rollback to the mark, no template, no evaluation), a Streaming column does
\* not enter parseExpression, the column keeps its parser type and gets no
\* value for the cell; so it is in tryReadValue and in the probe of
\* parseExpression.
C11_IrrecoverableDeserializerErrorPropagates ==
    [][ \A c \in ColumnIdx :
          (/\ pc = "cell"
           /\ Attempted(c)
           /\ BaseKind(CellOf(c)) \in {"overflow", "fatal"}) =>
             /\ result' = Error(IF BaseKind(CellOf(c)) = "overflow"
                                THEN "ARGUMENT_OUT_OF_BOUND"
                                ELSE "MEMORY_LIMIT_EXCEEDED")
             /\ got_exception'
             /\ Last(calls'[c]) \in DeserializerCalls
             /\ parser_type_for_column[c] = "Streaming" =>
                    ~In(calls'[c], "parseExpression")
             /\ parser_type_for_column[c] # "Streaming" =>
                    Last(calls'[c]) = "deserializeTextQuoted"
             /\ parser_type_for_column'[c] = parser_type_for_column[c]
             /\ columns'[c] = columns[c] \o EvaluateAll(templates[c].shape, templates[c].rows)
             /\ block_missing_values' = block_missing_values
      ]_vars

\* C11 witness: the probe of parseExpression met a literal out of range in a
\* column in SingleExpressionEvaluation.
C11_Witness ==
    /\ pc = "cell_read"
    /\ result = Error("ARGUMENT_OUT_OF_BOUND")
    /\ \E c \in ColumnIdx :
          /\ last_row.cells[c] = Cell("overflow", 1)
          /\ parser_type_for_column[c] = "SingleExpressionEvaluation"
          /\ calls[c] = <<"parseExpression", "parser.parse", "deserializeTextQuoted">>

\* What the cell's column holds once the template of the column, if any, has
\* been flushed.
FlushedColumn(c) == columns[c] \o EvaluateAll(templates[c].shape, templates[c].rows)

\* The terminal error of a cell that needs evaluation while
\* interpret_expressions is off: SUPPORT_IS_DISABLED when no template was
\* constructed for it, else the exception of the construction or SYNTAX_ERROR.
DisabledError(c) ==
    /\ result'.kind = "error"
    /\ got_exception'
    /\ IF In(calls'[c], "getFromCacheOrConstruct")
       THEN result'.code \in {"UNKNOWN_IDENTIFIER", "SYNTAX_ERROR"}
       ELSE result'.code = "SUPPORT_IS_DISABLED"
    /\ columns'[c] = FlushedColumn(c)

\* C12 as stated: with interpret_expressions off the evaluator is never
\* called, and every cell that neither the deserializer reads nor a template
\* binds fails with SUPPORT_IS_DISABLED (no deduction attempted) or with the
\* deduction's exception or SYNTAX_ERROR (deduction attempted), nothing
\* appended for it.
C12_DisabledInterpretationAnyCell ==
    [][ \A c \in ColumnIdx :
          (pc = "cell" /\ Attempted(c) /\ ~format_settings.interpret_expressions) =>
             /\ ~In(calls'[c], "evaluateConstantExpression")
             /\ result'.kind # "cell" => DisabledError(c)
      ]_vars

\* C12, for a cell that the SQL parser accepts with the column's delimiter
\* after it and on which the deserializer does not fail irrecoverably: with
\* interpret_expressions off the evaluator is never called (for any cell),
\* and such a cell, if neither the deserializer reads it nor a template
\* binds it, fails with SUPPORT_IS_DISABLED (no deduction attempted) or with
\* the deduction's exception or SYNTAX_ERROR (deduction attempted), nothing
\* appended for it.
C12_DisabledInterpretationIsTerminal ==
    [][ \A c \in ColumnIdx :
          (pc = "cell" /\ Attempted(c) /\ ~format_settings.interpret_expressions) =>
             /\ ~In(calls'[c], "evaluateConstantExpression")
             /\ (/\ result'.kind # "cell"
                 /\ ParseExpr(CellOf(c)).ok
                 /\ DelimiterTokenFollows(c, CellOf(c))
                 /\ BaseKind(CellOf(c)) \notin {"overflow", "fatal"}) => DisabledError(c)
             /\ result'.kind = "error" => columns'[c] = FlushedColumn(c)
      ]_vars

\* C12 witness: f(1) in a Streaming column with deduction and interpretation
\* both off.
C12_Witness ==
    /\ pc = "cell_read"
    /\ ~format_settings.interpret_expressions
    /\ result = Error("SUPPORT_IS_DISABLED")
    /\ \E c \in ColumnIdx :
          /\ last_row.cells[c] = Cell("f", 1)
          /\ calls[c] = <<"tryReadValue", "deserializeTextQuoted", "rollbackToCheckpoint",
                          "parseExpression", "parser.parse">>

\* The delimiter rule of a column's position: ',' after a column that is not
\* the last; after the last ')' or ',' and then ')'.
CorrectDelimiter(c, cell) ==
    IF c # num_columns
    THEN Head(AfterCell(c, cell)) = ","
    ELSE AfterCell(c, cell) \in {<<")">>, <<",", ")">>}

\* C13: an expression the SQL parser parses is accepted by parseExpression
\* iff the column's delimiter follows it (for the last column ')' or ',' and
\* then ')'), and fails with SYNTAX_ERROR otherwise; the streaming parser
\* keeps a value it has read under the same rule.
C13_DelimiterRuleOfBothPaths ==
    [][ \A c \in ColumnIdx :
          (pc = "cell" /\ Attempted(c)) =>
             /\ (In(calls'[c], "parser.parse") /\ ParseExpr(CellOf(c)).ok) =>
                   IF CorrectDelimiter(c, CellOf(c))
                   THEN result'.code # "SYNTAX_ERROR"
                   ELSE result' = Error("SYNTAX_ERROR")
             /\ (/\ parser_type_for_column[c] = "Streaming"
                 /\ BaseKind(CellOf(c)) = "lit") =>
                   (CorrectDelimiter(c, CellOf(c)) <=> ~In(calls'[c], "parseExpression"))
      ]_vars

\* C14: when the evaluation of a cell's expression gives NULL (the column's
\* type is neither Nullable nor LowCardinality(Nullable)): with
\* null_as_default the default is appended and the cell's bit of the mask
\* set; without it read() throws TYPE_MISMATCH, nothing is appended and the
\* last thing done is the rollback to the column's mark.  When it gives
\* another value, exactly that value is appended and the bit is not set.
C14_NullFromEvaluation ==
    [][ \A c \in ColumnIdx :
          (/\ pc = "cell"
           /\ Attempted(c)
           /\ In(calls'[c], "evaluateConstantExpression")
           /\ ~EvalThrows(CellOf(c))) =>
             IF EvalIsNull(CellOf(c))
             THEN IF format_settings.null_as_default
                  THEN /\ result' = [kind |-> "cell", rows |-> c, code |-> "false"]
                       /\ columns'[c] = Append(FlushedColumn(c), DefaultValue)
                       /\ block_missing_values' =
                              block_missing_values \cup {<<c, rows_in_block>>}
                  ELSE /\ result' = Error("TYPE_MISMATCH")
                       /\ columns'[c] = FlushedColumn(c)
                       /\ Last(calls'[c]) = "rollbackToCheckpoint"
                       /\ block_missing_values' = block_missing_values
             ELSE /\ result' = [kind |-> "cell", rows |-> c, code |-> "true"]
                  /\ columns'[c] = Append(FlushedColumn(c),
                                          EvalShape(BaseKind(CellOf(c)), CellOf(c).lit))
                  /\ block_missing_values' = block_missing_values
      ]_vars

\* C14 witness: a function call whose value is NULL was evaluated with
\* null_as_default on, in the second row of a batch.
C14_Witness ==
    /\ pc = "cell_read"
    /\ format_settings.null_as_default
    /\ \E c \in ColumnIdx :
          /\ last_row.cells[c] = Cell("fnull", 1)
          /\ In(calls[c], "evaluateConstantExpression")
          /\ Last(calls[c]) = "insertDefaultInto"
          /\ columns[c] = <<1, DefaultValue>>
          /\ block_missing_values = {<<c, 1>>}

\* How many times x occurs in seq.
Count(seq, x) == Cardinality({i \in 1..Len(seq) : seq[i] = x})

\* C15: a recurring shape is paid for once.  The row on which a template is
\* deduced calls getFromCacheOrConstruct exactly once and does not call the
\* evaluator; every later row of that shape is bound by the template alone:
\* neither the SQL parser, nor the cache, nor the evaluator, nor the
\* deserializer is called, nothing is appended to the column and nothing is
\* evaluated.  Each of these rows adds one to rows_parsed_using_template, and
\* when read() returns, the rows the template holds, all of them, are
\* evaluated at once and appended in order.
C15_RecurringShapePaidOnce ==
    [][ /\ RowStep =>
            \A c \in ColumnIdx :
               LET log == calls'[c]
                   matched == /\ parser_type_for_column[c] = "BatchTemplate"
                              /\ TemplateMatches(c, templates[c], CellOf(c))
                   deduced == /\ In(log, "getFromCacheOrConstruct")
                              /\ templates'[c] # NoTemplate
               IN  /\ (Attempted(c) /\ matched) =>
                        /\ log = <<"tryParseExpressionUsingTemplate",
                                   "template.parseExpression">>
                        /\ rows_parsed_using_template'[c] = rows_parsed_using_template[c] + 1
                        /\ templates'[c].rows = Append(templates[c].rows, CellOf(c).lit)
                        /\ Len(templates'[c].rows) <= rows_in_block + 1
                        /\ columns'[c] = columns[c]
                        /\ attempts_to_deduce_template'[c] = attempts_to_deduce_template[c]
                        /\ attempts_to_deduce_template_cached'[c] =
                              attempts_to_deduce_template_cached[c]
                   /\ (Attempted(c) /\ deduced) =>
                        /\ Count(log, "getFromCacheOrConstruct") = 1
                        /\ Count(log, "parser.parse") = 1
                        /\ ~In(log, "evaluateConstantExpression")
                        /\ rows_parsed_using_template'[c] = rows_parsed_using_template[c] + 1
                        /\ attempts_to_deduce_template'[c]
                             + attempts_to_deduce_template_cached'[c]
                           = attempts_to_deduce_template[c]
                               + attempts_to_deduce_template_cached[c] + 1
        /\ (ReturnStep /\ ~need_only_count) =>
            \A c \in ColumnIdx :
               templates[c] # NoTemplate =>
                  /\ columns'[c] =
                        columns[c] \o EvaluateAll(templates[c].shape, templates[c].rows)
                  /\ templates'[c].rows = <<>>
      ]_vars

\* C15 witness: a fresh reader has read f(1) and f(2) in one read(): one
\* construction, two rows counted, both held by the template and none
\* evaluated yet.
C15_Witness ==
    /\ pc = "flush"
    /\ rows_in_block = 2
    /\ templates[1] = [shape |-> "f", rows |-> <<1, 2>>]
    /\ rows_parsed_using_template[1] = 2
    /\ attempts_to_deduce_template[1] + attempts_to_deduce_template_cached[1] = 1
    /\ calls[1] = <<"tryParseExpressionUsingTemplate", "template.parseExpression">>
    /\ columns[1] = <<>>

\* In count-only mode the reader is as it was constructed: no column holds a
\* value, no bit of the mask is set, every column is Streaming without a
\* template, and no counter has moved.
CountOnlyFrame ==
    /\ columns = [c \in ColumnIdx |-> <<>>]
    /\ block_missing_values = {}
    /\ parser_type_for_column = [c \in ColumnIdx |-> "Streaming"]
    /\ templates = [c \in ColumnIdx |-> NoTemplate]
    /\ attempts_to_deduce_template = [c \in ColumnIdx |-> 0]
    /\ attempts_to_deduce_template_cached = [c \in ColumnIdx |-> 0]
    /\ rows_parsed_using_template = [c \in ColumnIdx |-> 0]
    /\ templates_cache = {}
    /\ calls = [c \in ColumnIdx |-> <<>>]

\* A loop iteration of a count-only read() that found a row: one
\* skipToNextRow took exactly the row and the comma after it.
CountOnlyRow ==
    (rows_seen' = rows_seen + 1) =>
        LET bytes == RowBytes(last_row'.cells, last_row'.comma)
        IN  /\ skipToNextRow(bytes, 1, 0) = [ret |-> TRUE, pos |-> Len(bytes) + 1]
            /\ rows_in_block' = rows_in_block + 1
            /\ rows_in_block' <= max_block_size
            /\ total_rows' = total_rows

\* A count-only read() that skipped rows returns their number and adds it to
\* total_rows.
CountOnlyReturn ==
    (ReturnStep /\ rows_in_block > 0) =>
        /\ result' = [kind |-> "count", rows |-> rows_in_block, code |-> "none"]
        /\ rows_in_block <= max_block_size
        /\ total_rows' = total_rows + rows_in_block
        /\ buf' = buf

\* C16 as claimed: in count-only mode read() calls no parser and leaves
\* columns, mask, strategies, templates and counters alone; it takes one
\* skipToNextRow per row and returns the number of rows skipped, at most
\* max_block_size, adding it to total_rows, or end-of-data when it skipped
\* no row.
C16_CountOnlyEndsWithEndOfData ==
    [][ need_only_count =>
          /\ CountOnlyFrame /\ CountOnlyFrame'
          /\ CountOnlyRow
          /\ CountOnlyReturn
          /\ (ReturnStep /\ rows_in_block = 0) =>
                /\ result' = [kind |-> "end", rows |-> 0, code |-> "none"]
                /\ total_rows' = total_rows
      ]_vars

\* C16, amended: the same, but a read() that skipped no row returns what
\* readSuffix gives: end-of-data, or the exception of readSuffix when bytes
\* other than whitespace follow the ';'.
C16_CountOnlySkipsAndCounts ==
    [][ need_only_count =>
          /\ CountOnlyFrame /\ CountOnlyFrame'
          /\ CountOnlyRow
          /\ CountOnlyReturn
          /\ (ReturnStep /\ rows_in_block = 0) =>
                /\ result' = IF readSuffix(buf).exc # "none"
                             THEN Error(readSuffix(buf).exc)
                             ELSE [kind |-> "end", rows |-> 0, code |-> "none"]
                /\ readSuffix(buf).exc # "none" => hasUnreadData(buf')
                /\ total_rows' = total_rows
      ]_vars

\* C16 witness: a count-only read() has returned the count of a full block
\* and total_rows has taken it.
C16_Witness ==
    /\ need_only_count
    /\ pc = "idle"
    /\ result = [kind |-> "count", rows |-> max_block_size, code |-> "none"]
    /\ total_rows = max_block_size
    /\ rows_seen = max_block_size
    /\ CountOnlyFrame

\* The points at which a scan from pos that never stopped would test its
\* condition, each with the balance there: pos itself and the position after
\* each of the symbols \ ' ( ) with what it takes along (the byte after a
\* backslash); the last point is the end of the input.
RECURSIVE ScanPoints(_, _, _, _)
ScanPoints(bytes, pos, bal, quoted) ==
    IF pos > Len(bytes) THEN <<[pos |-> Len(bytes) + 1, bal |-> bal]>>
    ELSE LET p == CHOOSE q \in pos..(Len(bytes) + 1) :
                     /\ q <= Len(bytes) => bytes[q] \in SpecialSymbols
                     /\ \A k \in pos..(q - 1) : bytes[k] \notin SpecialSymbols
             sym == IF p <= Len(bytes) THEN bytes[p] ELSE "end"
             next == IF sym = "\\" /\ p < Len(bytes) THEN p + 2 ELSE p + 1
             bal2 == IF quoted THEN bal
                     ELSE IF sym = "(" THEN bal + 1
                     ELSE IF sym = ")" THEN bal - 1
                     ELSE bal
         IN  <<[pos |-> pos, bal |-> bal]>>
               \o ScanPoints(bytes, next, bal2, IF sym = "'" THEN ~quoted ELSE quoted)

\* Where the first byte after the leading whitespace is.
SkipBegin == firstNonWhitespace(skip_args.bytes, 1)

\* The position of the first of the points whose index is in stops; the last
\* point is the end of the input, at which every scan stops.
FirstStop(points, stops) ==
    LET i == CHOOSE j \in 1..Len(points) :
                /\ j \in stops \/ j = Len(points)
                /\ \A k \in 1..(j - 1) : k \notin stops
    IN  points[i].pos

\* The indices of the points at which the scan has consumed at least
\* min_chunk_bytes bytes.
MinConsumed(points) ==
    {j \in 1..Len(points) : points[j].pos - SkipBegin >= skip_args.min_chunk_bytes}

\* The indices of the points at which the balance is bal.
BalanceIs(points, bal) == {j \in 1..Len(points) : points[j].bal = bal}

SkipReturnsFalse ==
    SkipBegin > Len(skip_args.bytes) \/ skip_args.bytes[SkipBegin] = ";"

\* The position after the comma that follows stop, if one does.
AfterComma(stop) ==
    IF stop <= Len(skip_args.bytes) /\ skip_args.bytes[stop] = "," THEN stop + 1 ELSE stop

\* C17 as claimed: the scan stops at the first point where the balance is
\* back at the value the caller supplied, or where at least min_chunk_bytes
\* bytes are consumed while the balance is not back, or at the end of input.
\* "Back at the value" is read in both ways: the balance has that value, at
\* the start of the scan too, or it has it after the scan has moved.
C17_StopsWhenBalanceIsBack ==
    (pc = "skipped" /\ ~SkipReturnsFalse) =>
        LET points == ScanPoints(skip_args.bytes, SkipBegin, skip_args.balance, FALSE)
            back == BalanceIs(points, skip_args.balance)
            unbalanced == MinConsumed(points) \ back
        IN  \/ result.rows = AfterComma(FirstStop(points, back \cup unbalanced))
            \/ result.rows = AfterComma(FirstStop(points, (back \ {1}) \cup unbalanced))

\* C17, amended: skipToNextRow returns false, at the first byte after the
\* whitespace, when that is the end of the input or ';'.  Otherwise it
\* returns true and the scan stops at the first point, after a symbol or at
\* its start, where the balance is zero and at least min_chunk_bytes bytes
\* are consumed, or at the end of input; one ',' at that point is consumed.
C17_StopsAtZeroBalanceAfterMinBytes ==
    pc = "skipped" =>
        IF SkipReturnsFalse
        THEN result = [kind |-> "skip", rows |-> SkipBegin, code |-> "false"]
        ELSE LET points == ScanPoints(skip_args.bytes, SkipBegin, skip_args.balance, FALSE)
             IN  /\ result.code = "true"
                 /\ result.rows =
                       AfterComma(FirstStop(points,
                                            BalanceIs(points, 0) \cap MinConsumed(points)))

\* C17 witness: called inside a row with (0, 1), the scan has passed a pair
\* of parentheses, at which the balance was back at 1, and stopped after the
\* ')' that ends the row, taking the comma.
C17_Witness ==
    /\ pc = "skipped"
    /\ skip_args = [bytes |-> <<"(", ")", ")", ",">>, min_chunk_bytes |-> 0, balance |-> 1]
    /\ result = [kind |-> "skip", rows |-> 5, code |-> "true"]

\* read() of ValuesBlockInputFormat, called with the input at bytes, reports
\* the end of the data: its loop breaks before the first row (end of input,
\* or ';' after whitespace) and readSuffix returns.
ReadReportsEndOfData(bytes) ==
    LET b == [more |-> FALSE, rest |-> skipWhitespaceIfAny(bytes)]
    IN  AtEndOrSemicolon(b) /\ readSuffix(b).exc = "none"

\* A call of readRowAndGetDataTypes happens in this step.
SchemaCall == pc = "schema" /\ pc' \in {"schema", "schema_failed"}

\* C18: where read() of the main reader reports the end of the data (at the
\* end of input, or at ';' after whitespace, followed by whitespace only),
\* readRowAndGetDataTypes reports it too: it gives no types, it neither
\* fails nor reads a row.
C18_SchemaReaderEndsWhereReadEnds ==
    [][ (SchemaCall /\ ReadReportsEndOfData(schema_reader.buf)) =>
            result' = [kind |-> "end", rows |-> 0, code |-> "none"]
      ]_vars

\* The number of values of the row that bytes starts with, after whitespace:
\* none when there is only whitespace between '(' and ')', otherwise one
\* more than there are commas between them.
RECURSIVE ValuesUpToBracket(_, _, _)
ValuesUpToBracket(bytes, commas, blank) ==
    IF bytes = <<>> \/ Head(bytes) = ")"
    THEN IF blank /\ commas = 0 THEN 0 ELSE commas + 1
    ELSE ValuesUpToBracket(Tail(bytes),
                           IF Head(bytes) = "," THEN commas + 1 ELSE commas,
                           blank /\ Head(bytes) = " ")

ValuesInRow(bytes) == ValuesUpToBracket(Tail(skipWhitespaceIfAny(bytes)), 0, TRUE)

\* The call that consumes the ';' returns the row before it, with one type
\* per value of the row.
TerminatingCallReturnsRow ==
    (SchemaCall /\ ~schema_reader.end_of_data /\ schema_reader'.end_of_data) =>
        /\ result' = [kind |-> "types", rows |-> ValuesInRow(schema_reader.buf),
                      code |-> "none"]
        /\ \E k \in 1..Len(schema_reader.buf) :
              /\ schema_reader.buf[k] = ";"
              /\ schema_reader'.buf = SubSeq(schema_reader.buf, k + 1,
                                              Len(schema_reader.buf))

\* C19 as claimed: once a call has consumed a ';', every later call returns
\* end-of-data and consumes no input, whatever follows the ';'; the row
\* before the ';' is returned with one type per value.
C19_NothingConsumedAfterTerminator ==
    [][ /\ TerminatingCallReturnsRow
        /\ (SchemaCall /\ schema_reader.end_of_data) =>
              /\ result' = [kind |-> "end", rows |-> 0, code |-> "none"]
              /\ schema_reader'.end_of_data
              /\ schema_reader'.buf = schema_reader.buf
      ]_vars

\* C19, amended: once a call has consumed a ';', every later call returns
\* end-of-data, whatever follows the ';': it reads no row and does not fail,
\* and the only input it consumes is the whitespace the buffer is at.  The
\* row before the ';' is returned with one type per value.
C19_TerminatorEndsInference ==
    [][ /\ TerminatingCallReturnsRow
        /\ (SchemaCall /\ schema_reader.end_of_data) =>
              /\ result' = [kind |-> "end", rows |-> 0, code |-> "none"]
              /\ schema_reader'.end_of_data
              /\ schema_reader'.buf = skipWhitespaceIfAny(schema_reader.buf)
      ]_vars

\* C19 witness: of a document such as ();() the first call has returned the
\* row and consumed the ';', and a later call has returned end-of-data with
\* the second row unread.
C19_Witness ==
    /\ pc = "schema"
    /\ schema_reader = [buf |-> <<"(", ")">>, first_row |-> FALSE, end_of_data |-> TRUE]
    /\ result = [kind |-> "end", rows |-> 0, code |-> "none"]

\* C20: with several readers calling getOrConstruct concurrently, the cache
\* has at most one entry per key and every entry is a complete template; a
\* caller that has returned holds a complete template of its key, its own
\* or another caller's, and one reported as a hit is another caller's or of
\* an earlier call.
C20_OneEntryPerKeyAllComplete ==
    pc = "cache" =>
        /\ \A key \in SharedKeys : Cardinality(Entries(shared_cache, key)) <= 1
        /\ \A e \in shared_cache : e.complete /\ e.key \in SharedKeys
        /\ \A i \in CallerIdx :
              callers[i].pc = "done" =>
                 /\ callers[i].got.complete
                 /\ callers[i].got.key = callers[i].key
                 /\ callers[i].got \in shared_cache
                 /\ callers[i].hit => callers[i].mine = NoSharedTemplate

\* C20 witness: two readers have compiled a template of the same key each;
\* one of the two is in the cache and both readers hold it.
C20_Witness ==
    /\ pc = "cache"
    /\ callers[1].pc = "done" /\ callers[2].pc = "done"
    /\ callers[1].key = callers[2].key
    /\ callers[1].mine.complete /\ callers[2].mine.complete
    /\ callers[1].got = callers[2].got
    /\ shared_cache = {callers[1].got}

\* The Streaming attempt of the step failed with a parse error that was
\* caught: tryReadValue was entered and went on to the full-expression path.
StreamingFellBack(c) ==
    /\ Attempted(c)
    /\ Head(calls'[c]) = "tryReadValue"
    /\ In(calls'[c], "parseExpression")

\* The cells on which a Streaming attempt fails with a parse error: the
\* deserializer cannot read them, or what follows the value is not the
\* delimiter.
FailsStreaming(cell) ==
    \/ BaseKind(cell) \in {"bad", "f", "g", "fnull", "frac"}
    \/ BaseKind(cell) = "null" /\ ~format_settings.null_as_default
    \/ cell.kind \in {"lit_x", "default_x"}

\* C21: when the Streaming attempt for a cell fails with a parse error, the
\* cursor is rolled back to the mark, the column is as long as before the
\* attempt and holds what it held, and the full-expression path is entered
\* exactly once, right after the rollback; it appends at most one value,
\* and none when it throws or binds the cell to a template.
C21_StreamingFailureFallsBackOnce ==
    [][ \A c \in ColumnIdx :
          /\ (pc = "cell" /\ Attempted(c) /\ parser_type_for_column[c] = "Streaming"
                /\ FailsStreaming(CellOf(c))) => StreamingFellBack(c)
          /\ (pc = "cell" /\ StreamingFellBack(c)) =>
                LET log == calls'[c]
                    before == Len(columns[c])
                IN  /\ FailsStreaming(CellOf(c))
                    /\ Len(log) >= 4
                    /\ log[3] = "rollbackToCheckpoint"
                    /\ log[4] = "parseExpression"
                    /\ Count(log, "parseExpression") = 1
                    /\ Count(log, "tryReadValue") = 1
                    /\ Len(columns'[c]) \in {before, before + 1}
                    /\ SubSeq(columns'[c], 1, before) = columns[c]
                    /\ (result'.kind = "error" \/ templates'[c] # NoTemplate) =>
                          columns'[c] = columns[c]
      ]_vars

\* C21 witness: in a Streaming column that held a value, DEFAULT followed by
\* a wrong token had its default appended and removed again, and the
\* full-expression path failed on the cell: the column holds what it held.
C21_Witness ==
    /\ pc = "cell_read"
    /\ \E c \in ColumnIdx :
          /\ last_row.cells[c] = Cell("default_x", 0)
          /\ In(calls[c], "insertDefault")
          /\ In(calls[c], "parseExpression")
          /\ columns[c] = <<1>>
          /\ result = Error("SYNTAX_ERROR")

\* The calls of the step for column c from its entry into parseExpression on.
FromParseExpression(c) ==
    SubSeq(calls'[c], Position(calls'[c], "parseExpression"), Len(calls'[c]))

\* The probe was attempted in the step: parseExpression called the
\* deserializer.
ProbeAttempted(c) ==
    /\ In(calls'[c], "parseExpression")
    /\ In(FromParseExpression(c), "deserializeTextQuoted")

NormalReturn ==
    /\ ReturnStep
    /\ ~need_only_count
    /\ result'.kind \in {"chunk", "end"}

\* C23: when read() returns normally in normal mode, no template holds a
\* row: the rows a template had accumulated were evaluated, in their order,
\* and appended after the values the column held; a template without rows
\* is not evaluated, its column is as it was, and every template stays with
\* its column.  Between two calls of read() no template holds a row.
C23_NoBindingsLeftAtReturn ==
    [][ /\ NormalReturn =>
            \A c \in ColumnIdx :
               /\ templates'[c].rows = <<>>
               /\ templates'[c].shape = templates[c].shape
               /\ columns'[c] =
                     columns[c] \o EvaluateAll(templates[c].shape, templates[c].rows)
               /\ Len(columns'[c]) = Len(columns[c]) + Len(templates[c].rows)
               /\ templates[c].rows = <<>> =>
                     (templates'[c] = templates[c] /\ columns'[c] = columns[c])
        /\ (pc' = "idle" /\ ~need_only_count /\ result'.kind \in {"chunk", "end"}) =>
            \A c \in ColumnIdx : templates'[c].rows = <<>>
      ]_vars

\* C23 witness: a chunk of two rows was returned whose first column read a
\* literal by the streaming parser and then f(1) by a template: the value of
\* f(1) is after the literal and the template is attached, without rows.
C23_Witness ==
    /\ pc = "idle" /\ result.kind = "chunk" /\ result.rows = 2
    /\ columns[1] = <<1, 11>>
    /\ parser_type_for_column[1] = "BatchTemplate"
    /\ templates[1] = [shape |-> "f", rows |-> <<>>]

\* The attempt of the step for column c reported that no concrete value was
\* read: it ended by inserting the default for DEFAULT or for NULL.
NoConcreteValue(c) ==
    /\ Attempted(c)
    /\ \/ Last(calls'[c]) \in {"insertDefault", "insertDefaultInto"}
       \/ /\ Last(calls'[c]) = "deserializeNullAsDefaultOrNestedTextQuoted"
          /\ BaseKind(CellOf(c)) = "null"

RollsBack(log) ==
    \/ In(log, "rollbackToCheckpoint")
    \/ In(log, "parseExpression")
    \/ In(log, "tryParseExpressionUsingTemplate")

\* The checkpoints set and not dropped at each position of readRow.
CheckpointsAt(position, checkpoints) ==
    /\ checkpoints <= 1
    /\ position \in {"column", "row_end", "row_left"} => checkpoints = 0
    /\ position \in {"attempt", "attempted"} => checkpoints = 1

\* C25: never more than one checkpoint is set.  Before each column attempt
\* exactly one is set, with none set before; it is dropped when the attempt
\* has returned and when it has thrown, so that none is set at the next
\* column, at the end of the row and when readRow is left; and the cursor is
\* rolled back only during an attempt, with the checkpoint of the attempted
\* column set.
C25_OneCheckpointPerAttempt ==
    [][ /\ CheckpointsAt(pc, buf.checkpoints)
        /\ CheckpointsAt(pc', buf'.checkpoints)
        /\ pc' = "attempt" => (pc = "column" /\ buf.checkpoints = 0)
        /\ pc = "attempted" => buf'.checkpoints = 0
        /\ \A c \in ColumnIdx :
              (calls'[c] # calls[c] /\ RollsBack(calls'[c])) =>
                 /\ pc = "attempt" /\ buf.checkpoints = 1 /\ buf'.checkpoints = 1
                 /\ result.rows = c
      ]_vars

\* C25 witness: the attempt for the second column rolled back and threw, the
\* row was left by the exception, and no checkpoint is set.
C25_Witness ==
    /\ pc = "row_left"
    /\ result.kind = "error" /\ result.rows = 2
    /\ In(calls[2], "rollbackToCheckpoint")
    /\ buf.checkpoints = 0

\* Byte i of the input of skipToNextRow is taken along by a backslash: the
\* byte before it is a backslash that is not itself taken along.
RECURSIVE Escaped(_)
Escaped(i) ==
    /\ i > SkipBegin
    /\ skip_args.bytes[i - 1] = "\\"
    /\ ~Escaped(i - 1)

\* The positions before i, from the first byte after the whitespace, that
\* hold sym and are not taken along by a backslash.
Unescaped(sym, i) ==
    {k \in SkipBegin..(i - 1) : skip_args.bytes[k] = sym /\ ~Escaped(k)}

\* The quoted flag at i: an odd number of quotes before i.
QuotedAt(i) == Cardinality(Unescaped("'", i)) % 2 = 1

\* The balance at i: the caller's value, +1 for each '(' and -1 for each ')'
\* before i that is neither quoted nor taken along by a backslash.
BalanceAt(i) ==
    skip_args.balance
      + Cardinality({k \in Unescaped("(", i) : ~QuotedAt(k)})
      - Cardinality({k \in Unescaped(")", i) : ~QuotedAt(k)})

\* The positions at which the scan can stop: its start, the position after a
\* quote or parenthesis, the position after the byte a backslash takes along,
\* and the end of the input.
StopPoints ==
    {i \in SkipBegin..(Len(skip_args.bytes) + 1) :
        \/ i = SkipBegin
        \/ i = Len(skip_args.bytes) + 1
        \/ Escaped(i - 1)
        \/ skip_args.bytes[i - 1] \in {"'", "(", ")"}}

\* C26: skipToNextRow returns false, at the first byte after the leading
\* whitespace, iff that is the end of the input or ';'.  Otherwise it
\* returns true, having stopped at the first position, or the end of input,
\* where at least min_chunk_bytes bytes are consumed and the balance is
\* zero, the balance counting '(' and ')' that are neither quoted nor taken
\* along by a backslash, quotes taken along by a backslash not toggling the
\* quoted flag; one ',' at that position is consumed.
C26_RowBoundaryScanningRules ==
    pc = "skipped" =>
        /\ result.code = "false" <=> SkipReturnsFalse
        /\ result.code = "false" => result.rows = SkipBegin
        /\ result.code = "true" =>
              \E stop \in StopPoints :
                 /\ result.rows = AfterComma(stop)
                 /\ \/ stop = Len(skip_args.bytes) + 1
                    \/ /\ BalanceAt(stop) = 0
                       /\ stop - SkipBegin >= skip_args.min_chunk_bytes
                 /\ \A i \in StopPoints :
                       i < stop => \/ BalanceAt(i) # 0
                                   \/ i - SkipBegin < skip_args.min_chunk_bytes

\* C26 witness: at the start of a row, the ')' after a backslash has not
\* closed the row: the scan has stopped after the next one.
C26_Witness ==
    /\ pc = "skipped"
    /\ skip_args = [bytes |-> <<"(", "\\", ")", ")">>, min_chunk_bytes |-> 1, balance |-> 0]
    /\ result = [kind |-> "skip", rows |-> 5, code |-> "true"]

\* The full-expression path entered the deduction branch for column c in the
\* step: shouldDeduceNewTemplate returned true and the column held no
\* template, so the cache was asked for one.
DeductionEntered(c) == In(calls'[c], "getFromCacheOrConstruct")

\* The cache holds a structure for the expression of the cell of column c.
FoundInCache(c) == CacheKey(c, ParseExpr(CellOf(c))) \in templates_cache

\* A template of column c took the row of the step.
RowBound(c) ==
    /\ templates'[c] # NoTemplate
    /\ templates'[c] # templates[c]
    /\ templates'[c].rows # <<>>
    /\ Last(templates'[c].rows) = CellOf(c).lit

\* The counters of column c when its attempt begins are not zeroed by
\* shouldDeduceNewTemplate (C8 is about the attempts in which they are).
CountersKept(c) ==
    ~TemplatesPayOff(attempts_to_deduce_template[c],
                     attempts_to_deduce_template_cached[c],
                     rows_parsed_using_template[c])

\* Exactly one of the two attempt counters of column c grows by one in the
\* step: the cache-hit counter if the structure was in the cache, the cold
\* counter otherwise.
OneAttemptCounted(c) ==
    IF FoundInCache(c)
    THEN /\ attempts_to_deduce_template_cached'[c] = attempts_to_deduce_template_cached[c] + 1
         /\ attempts_to_deduce_template'[c] = attempts_to_deduce_template[c]
    ELSE /\ attempts_to_deduce_template'[c] = attempts_to_deduce_template[c] + 1
         /\ attempts_to_deduce_template_cached'[c] = attempts_to_deduce_template_cached[c]

NoAttemptCounted(c) ==
    /\ attempts_to_deduce_template'[c] = attempts_to_deduce_template[c]
    /\ attempts_to_deduce_template_cached'[c] = attempts_to_deduce_template_cached[c]

RowsParsedCounted(c) ==
    rows_parsed_using_template'[c] =
        rows_parsed_using_template[c] + (IF RowBound(c) THEN 1 ELSE 0)

\* C27 as claimed: every attempt for a cell that enters the deduction
\* branch counts on exactly one of the two attempt counters, so the weighted
\* score grows in each; no other attempt changes them; and
\* rows_parsed_using_template grows by one exactly when a template takes the
\* row.
C27_EveryDeductionIsCounted ==
    [][ \A c \in ColumnIdx :
          (pc = "cell" /\ Attempted(c) /\ CountersKept(c)) =>
             /\ IF DeductionEntered(c) THEN OneAttemptCounted(c) ELSE NoAttemptCounted(c)
             /\ DeductionEntered(c) =>
                   AttemptsWeighted2(attempts_to_deduce_template'[c],
                                     attempts_to_deduce_template_cached'[c])
                     > AttemptsWeighted2(attempts_to_deduce_template[c],
                                         attempts_to_deduce_template_cached[c])
             /\ RowsParsedCounted(c)
      ]_vars

\* What holds of the counters: an attempt that enters the deduction branch
\* counts on exactly one attempt counter when getFromCacheOrConstruct
\* returns, and on none when it throws.
CountedWhenConstructed ==
    [][ \A c \in ColumnIdx :
          (pc = "cell" /\ Attempted(c) /\ CountersKept(c)) =>
             /\ IF DeductionEntered(c) /\ ~ConstructThrows(ParseExpr(CellOf(c)))
                THEN OneAttemptCounted(c)
                ELSE NoAttemptCounted(c)
             /\ RowsParsedCounted(c)
      ]_vars

\* The cell of column c in the step is an expression that is not a literal:
\* a function of a literal followed by the delimiter of the column, or a
\* cell that reached parseExpression and was parsed, with the delimiter, as
\* something else than a literal.
NonLiteralCell(c) ==
    /\ DelimiterTokenFollows(c, CellOf(c))
    /\ \/ BaseKind(CellOf(c)) \in {"f", "g", "fnull"}
       \/ /\ In(calls'[c], "parseExpression")
          /\ ParseExpr(CellOf(c)).ok
          /\ ~ParseExpr(CellOf(c)).literal

\* C28: with deduce_templates_of_expressions off, no step leaves a column in
\* BatchTemplate or with a template, none asks the cache for a template or
\* puts one into it, none changes a counter of a column, and a step that
\* reads cells handles every cell that is an expression and not a literal by evaluating
\* it on its own, or throws SUPPORT_IS_DISABLED when interpret_expressions is
\* off too.
C28_DeductionDisabled ==
    [][ ~format_settings.deduce_templates_of_expressions =>
          /\ \A c \in ColumnIdx :
                /\ parser_type_for_column'[c] # "BatchTemplate"
                /\ templates'[c] = NoTemplate
                /\ ~In(calls'[c], "getFromCacheOrConstruct")
                /\ ~In(calls'[c], "template.parseExpression")
          /\ templates_cache' = {} /\ templates_cache = {}
          /\ UNCHANGED <<attempts_to_deduce_template,
                         attempts_to_deduce_template_cached,
                         rows_parsed_using_template>>
          /\ (RowStep \/ pc = "cell") =>
                \A c \in ColumnIdx :
                   (Attempted(c) /\ NonLiteralCell(c)) =>
                      /\ In(calls'[c], "parseExpression")
                      /\ IF format_settings.interpret_expressions
                         THEN /\ In(calls'[c], "evaluateConstantExpression")
                              /\ parser_type_for_column'[c] = "SingleExpressionEvaluation"
                              /\ result'.code # "SUPPORT_IS_DISABLED"
                         ELSE /\ result' = Error("SUPPORT_IS_DISABLED")
                              /\ ~In(calls'[c], "evaluateConstantExpression")
      ]_vars

\* C28 witness: with deduction off, two rows with the same expression in the
\* second column were each evaluated on their own.
C28_Witness ==
    /\ ~format_settings.deduce_templates_of_expressions
    /\ rows_in_block = 2
    /\ last_row.cells[2] = Cell("f", 1)
    /\ In(calls[2], "evaluateConstantExpression")
    /\ parser_type_for_column[2] = "SingleExpressionEvaluation"
    /\ templates[2] = NoTemplate
    /\ columns[2] = <<11, 11>>
    /\ attempts_to_deduce_template[2] = 0

\* The attempt for column c in the step went into parseExpression without
\* tryParseExpressionUsingTemplate before it, which drops the template of the
\* column: the column was not in BatchTemplate.
ParsedWithoutTemplatePath(c) ==
    /\ Attempted(c)
    /\ In(calls'[c], "parseExpression")
    /\ Head(calls'[c]) # "tryParseExpressionUsingTemplate"

\* C29: when the caller calls resetParser() after every read() that threw, no
\* row fails with LOGICAL_ERROR: a column whose attempt goes into
\* parseExpression holds no template there, and between rows a column that is
\* not in BatchTemplate holds none.
C29_NoTemplateWhereOneIsDeduced ==
    [][ /\ RowStep =>
              /\ result'.code # "LOGICAL_ERROR"
              /\ \A c \in ColumnIdx :
                    ParsedWithoutTemplatePath(c) => templates[c] = NoTemplate
        /\ pc \in {"loop", "flush"} =>
              \A c \in ColumnIdx :
                 parser_type_for_column[c] # "BatchTemplate" => templates[c] = NoTemplate
      ]_vars

\* C29 witness: after two rows, the first of which left a template in the
\* cache, and a resetParser(), the first row of the next read() has gone into
\* parseExpression from the streaming parser in the second column, which
\* held no template, and the column has deduced one, found in the cache.
C29_Witness ==
    /\ pc = "loop"
    /\ rows_seen = 3
    /\ total_rows = 1
    /\ rows_in_block = 1
    /\ ~got_exception
    /\ In(calls[2], "getFromCacheOrConstruct")
    /\ Head(calls[2]) = "tryReadValue"
    /\ parser_type_for_column[2] = "BatchTemplate"
    /\ attempts_to_deduce_template_cached[2] = 1

\* C30 as claimed: wherever readRow can start a column attempt, in a read()
\* after construction, after a read() that returned, after resetParser(), or
\* after a read() that threw with no resetParser() since, a column is in
\* BatchTemplate iff it holds a template.
C30_BatchTemplateIffTemplate ==
    pc \in {"loop", "cell", "cell_again"} =>
        \A c \in ColumnIdx :
           parser_type_for_column[c] = "BatchTemplate" <=> templates[c] # NoTemplate

\* shouldDeduceNewTemplate answers no for column c in this state, and the
\* column neither is in BatchTemplate nor holds a template.
ThrottledColumn(c) ==
    /\ format_settings.deduce_templates_of_expressions
    /\ ~ScoreBelowThreshold(attempts_to_deduce_template[c],
                            attempts_to_deduce_template_cached[c])
    /\ ~TemplatesPayOff(attempts_to_deduce_template[c],
                        attempts_to_deduce_template_cached[c],
                        rows_parsed_using_template[c])
    /\ parser_type_for_column[c] # "BatchTemplate"
    /\ templates[c] = NoTemplate

\* In the step the attempt for the cell of column c came to the decision of
\* parseExpression and shouldDeduceNewTemplate returned false: the cache was
\* not asked, and the expression went on to be evaluated on its own or to
\* SUPPORT_IS_DISABLED.
AnsweredNo(c) ==
    /\ RowStep
    /\ ~In(calls'[c], "getFromCacheOrConstruct")
    /\ result'.code # "LOGICAL_ERROR"
    /\ \/ In(calls'[c], "evaluateConstantExpression")
       \/ result'.code = "SUPPORT_IS_DISABLED"

\* The counters of column c are what they were.
CountersUnchanged(c) ==
    /\ attempts_to_deduce_template'[c] = attempts_to_deduce_template[c]
    /\ attempts_to_deduce_template_cached'[c] = attempts_to_deduce_template_cached[c]
    /\ rows_parsed_using_template'[c] = rows_parsed_using_template[c]

C32_CountOnlyAgreesWithRows ==
    pc \in {"rows", "done"} =>
        /\ callers[1].result.rows = result.rows
        /\ (callers[1].result.kind = "end") = (result.kind = "end")

\* The input without the whitespace and semicolons it ends with.
RECURSIVE WithoutEnd(_)
WithoutEnd(bytes) ==
    IF bytes # <<>> /\ bytes[Len(bytes)] \in {" ", ";"}
    THEN WithoutEnd(SubSeq(bytes, 1, Len(bytes) - 1))
    ELSE bytes

\* The last row is followed by whitespace and then a comma.
CommaAfterWhitespaceAtEnd(bytes) ==
    LET b == WithoutEnd(bytes)
    IN  Len(b) >= 2 /\ b[Len(b)] = "," /\ b[Len(b) - 1] = " "

\* The two modes agree on every input whose last row is not followed by
\* whitespace and then a comma.
CountOnlyAgreesUnlessCommaAfterWhitespace ==
    pc \in {"rows", "done"} /\ ~CommaAfterWhitespaceAtEnd(callers[1].input) =>
        /\ callers[1].result.rows = result.rows
        /\ (callers[1].result.kind = "end") = (result.kind = "end")

\* Both readers have read a row after whitespace and a comma between rows.
CountOnlyAgreesSomewhere ==
    ~ /\ pc = "done"
      /\ ~CommaAfterWhitespaceAtEnd(callers[1].input)
      /\ total_rows = 2 /\ callers[1].total_rows = 2
      /\ \E i \in 1..(Len(callers[1].input) - 2) :
            /\ callers[1].input[i] = ")"
            /\ callers[1].input[i + 1] = " "
            /\ callers[1].input[i + 2] = ","

====
